---- MODULE Spec2Model ----
(***************************************************************************)
(* Model of the mo-local key service core (packages/key-service-core).     *)
(*                                                                         *)
(* Cryptography is symbolic: a hash is the tagged value it was computed    *)
(* from, an AEAD box opens only under the key, AAD and nonce it was sealed *)
(* with, a signature component is valid only for the key and message it    *)
(* was made with.  Canonical maps are functions from their integer keys.   *)
(***************************************************************************)
EXTENDS Integers, Sequences, FiniteSets, TLC

VARIABLES
  kv,        \* SpecLedger: the appending KeyVaultState
  kvNext,    \* SpecLedger: number of records drawn so far (entropy position)
  sess,      \* SpecSession: one Session (session.rs)
  hist,      \* SpecSession: observation log of the calls made on sess
  svc,       \* the KeyService: storage, sessions, state, entropy position
  now,       \* the clock's now_ms()
  shim,      \* SpecShim: backing store, write-buffering mirrors and their pending writes
  codec      \* SpecCodec: a value or byte string and what the codec made of it

ledgerVars == <<kv, kvNext>>
sessionVars == <<sess, hist>>
serviceVars == <<svc, now>>
shimVars == <<shim>>
codecVars == <<codec>>
vars == <<kv, kvNext, sess, hist, svc, now, shim, codec>>

(***************************************************************************)
(* Bounds of the model.                                                    *)
(***************************************************************************)
MaxChain == 3
MaxHandleIds == 4
MaxHandlesCfg == 2
MaxSessions == 2
MaxRecords == 4
MaxWraps == 2
MaxHandles == 2
MaxClock == 3
normal_session_ttl_ms == 2
step_up_session_ttl_ms == 1

(***************************************************************************)
(* Option and result values.                                               *)
(***************************************************************************)
None == <<>>
Some(x) == <<x>>
IsSome(o) == Len(o) = 1
Unwrap(o) == o[1]

Ok(v) == [ok |-> TRUE, val |-> v, err |-> "Ok"]
Err(kind) == [ok |-> FALSE, val |-> <<>>, err |-> kind]

(***************************************************************************)
(* Maps with a dynamic domain (HashMap).                                   *)
(***************************************************************************)
EmptyMap == <<>>
MapPut(m, k, v) == [x \in (DOMAIN m) \cup {k} |-> IF x = k THEN v ELSE m[x]]
MapRemove(m, k) == [x \in (DOMAIN m) \ {k} |-> m[x]]
MapHas(m, k) == k \in DOMAIN m

(***************************************************************************)
(* hash.rs, crypto.rs                                                      *)
(***************************************************************************)
ZeroHash == <<"zero32">>

sha256(bytes) == <<"sha256", bytes>>

aead_encrypt(key, aad, plaintext, nonce) ==
  [key |-> key, aad |-> aad, nonce |-> nonce, pt |-> plaintext]

aead_decrypt(key, aad, nonce, ct) ==
  IF ct.key = key /\ ct.aad = aad /\ ct.nonce = nonce
  THEN Ok(ct.pt)
  ELSE Err("Crypto")

(***************************************************************************)
(* cbor.rs: a value is tagged with its major type; the canonical encoding  *)
(* of a value is the only byte string that decodes to it.                  *)
(***************************************************************************)
cbor_map(entries) == <<"map", entries>>
cbor_array(items) == <<"array", items>>
cbor_text(text) == <<"text", text>>
cbor_bytes(bytes) == <<"bytes", bytes>>
cbor_uint(value) == <<"uint", value>>

encode_canonical_value(value) == <<"cbor", value>>

decode_canonical_value(bytes) ==
  IF Len(bytes) = 2 /\ bytes[1] = "cbor" THEN Ok(bytes[2]) ELSE Err("Cbor")

IsMap(value) == value[1] = "map"
HasKey(value, k, type) == k \in DOMAIN value[2] /\ value[2][k][1] = type
HasKeys(value, ks, type) == \A k \in ks : HasKey(value, k, type)
Field(value, k) == value[2][k][2]

(***************************************************************************)
(* aad.rs                                                                  *)
(***************************************************************************)
kdf_map(kdf) ==
  cbor_map([k \in 0..2 |-> CASE k = 0 -> cbor_text(kdf.id)
                             [] k = 1 -> cbor_bytes(kdf.salt)
                             [] k = 2 -> cbor_text(kdf.params)])

aad_keyvault_keywrap_v1(vault_id, user_id, kdf, aead) ==
  encode_canonical_value(cbor_map(
    [k \in 0..4 |-> CASE k = 0 -> cbor_text("mo-keyvault-keywrap-aad-v1")
                      [] k = 1 -> cbor_text(vault_id)
                      [] k = 2 -> cbor_text(user_id)
                      [] k = 3 -> kdf_map(kdf)
                      [] k = 4 -> cbor_text(aead)]))

aad_keyvault_record_v1(vault_id, user_id, aead, record_id) ==
  encode_canonical_value(cbor_map(
    [k \in 0..4 |-> CASE k = 0 -> cbor_text("mo-keyvault-record-aad-v1")
                      [] k = 1 -> cbor_text(vault_id)
                      [] k = 2 -> cbor_text(user_id)
                      [] k = 3 -> cbor_text(aead)
                      [] k = 4 -> cbor_text(record_id)]))

aad_key_envelope_wrap_v1(scope_id, scope_epoch, recipient_user_id, scope_state_ref, kem, aead, recipient_uk_pub_fingerprint) ==
  encode_canonical_value(cbor_map(
    [k \in (0..6) \cup (IF IsSome(recipient_uk_pub_fingerprint) THEN {7} ELSE {}) |->
       CASE k = 0 -> cbor_text("mo-key-envelope-aad-v1")
         [] k = 1 -> cbor_text(scope_id)
         [] k = 2 -> cbor_uint(scope_epoch)
         [] k = 3 -> cbor_text(recipient_user_id)
         [] k = 4 -> cbor_bytes(scope_state_ref)
         [] k = 5 -> cbor_text(kem)
         [] k = 6 -> cbor_text(aead)
         [] k = 7 -> cbor_bytes(Unwrap(recipient_uk_pub_fingerprint))]))

aad_resource_grant_wrap_v1(scope_id, resource_id, scope_epoch, resource_key_id, aead) ==
  encode_canonical_value(cbor_map(
    [k \in 0..5 |-> CASE k = 0 -> cbor_text("mo-resource-grant-aad-v1")
                      [] k = 1 -> cbor_text(scope_id)
                      [] k = 2 -> cbor_text(resource_id)
                      [] k = 3 -> cbor_uint(scope_epoch)
                      [] k = 4 -> cbor_text(resource_key_id)
                      [] k = 5 -> cbor_text(aead)]))

aad_webauthn_prf_wrap_v1(vault_id, user_id, kdf, aead) ==
  encode_canonical_value(cbor_map(
    [k \in 0..5 |-> CASE k = 0 -> cbor_text("mo-webauthn-prf-wrap-aad-v1")
                      [] k = 1 -> cbor_text(vault_id)
                      [] k = 2 -> cbor_text(user_id)
                      [] k = 3 -> cbor_text("salt-v1")
                      [] k = 4 -> cbor_text(aead)
                      [] k = 5 -> kdf_map(kdf)]))

(***************************************************************************)
(* formats.rs: record containers and record plaintexts.  An encoded map is *)
(* the function from its integer keys to its values; decoding reads the    *)
(* keys back and fails on a missing or mistyped one.                       *)
(***************************************************************************)
encode_record_container_value(record) ==
  cbor_map([k \in 0..5 |-> CASE k = 0 -> cbor_uint(record.v)
                             [] k = 1 -> cbor_uint(record.seq)
                             [] k = 2 -> cbor_bytes(record.prev_hash)
                             [] k = 3 -> cbor_text(record.record_id)
                             [] k = 4 -> cbor_bytes(record.nonce)
                             [] k = 5 -> cbor_bytes(record.ct)])

decode_record_container(value) ==
  IF IsMap(value) /\ HasKeys(value, {2, 4, 5}, "bytes") /\ HasKeys(value, {0, 1}, "uint")
       /\ HasKey(value, 3, "text")
  THEN Ok([v |-> Field(value, 0), seq |-> Field(value, 1), prev_hash |-> Field(value, 2),
           record_id |-> Field(value, 3), nonce |-> Field(value, 4), ct |-> Field(value, 5)])
  ELSE Err("Cbor")

encode_keyvault_record_container_v1(record) ==
  encode_canonical_value(encode_record_container_value(record))

decode_keyvault_record_container_v1(bytes) ==
  LET value == decode_canonical_value(bytes) IN
  IF value.ok THEN decode_record_container(value.val) ELSE value

encode_keyvault_record_plain_v1(record) ==
  encode_canonical_value(cbor_map(
    [k \in 0..2 |-> CASE k = 0 -> cbor_text(record.record_id)
                      [] k = 1 -> cbor_uint(record.kind)
                      [] k = 2 -> record.payload]))

decode_keyvault_record_plain_v1(bytes) ==
  LET value == decode_canonical_value(bytes) IN
  IF ~value.ok THEN value
  ELSE IF IsMap(value.val) /\ HasKey(value.val, 0, "text") /\ HasKey(value.val, 1, "uint")
            /\ 2 \in DOMAIN value.val[2]
       THEN Ok([record_id |-> Field(value.val, 0), kind |-> Field(value.val, 1),
                payload |-> value.val[2][2]])
       ELSE Err("Cbor")

(***************************************************************************)
(* keyvault.rs                                                             *)
(***************************************************************************)
KeyVaultStateDefault ==
  [head_seq |-> 0, head_hash |-> ZeroHash, records |-> <<>>]

KeyVaultMaterializedDefault ==
  [user_key |-> None, device_signing_keys |-> EmptyMap,
   scope_keys |-> EmptyMap, resource_keys |-> EmptyMap]

make_store_user_key_record(record_id, uk_priv, uk_pub) ==
  [record_id |-> record_id, kind |-> 1,
   payload |-> <<"map", [k \in 0..1 |-> IF k = 0 THEN <<"bytes", uk_priv>>
                                        ELSE <<"bytes", uk_pub>>]>>]

make_store_device_signing_key_record(record_id, device_id, keypair) ==
  [record_id |-> record_id, kind |-> 2,
   payload |-> <<"map", [k \in 0..5 |->
       CASE k = 0 -> <<"text", device_id>>
         [] k = 1 -> <<"bytes", keypair.ed25519_priv>>
         [] k = 2 -> <<"bytes", keypair.ed25519_pub>>
         [] k = 3 -> <<"text", "hybrid-sig-1">>
         [] k = 4 -> <<"bytes", keypair.mldsa_priv>>
         [] k = 5 -> <<"bytes", keypair.mldsa_pub>>]>>]

make_store_scope_key_record(record_id, scope_id, scope_epoch, scope_key) ==
  [record_id |-> record_id, kind |-> 3,
   payload |-> <<"map", [k \in 0..2 |->
       CASE k = 0 -> <<"text", scope_id>>
         [] k = 1 -> <<"uint", scope_epoch>>
         [] k = 2 -> <<"bytes", scope_key>>]>>]

make_store_resource_key_record(record_id, resource_id, resource_key_id, resource_key) ==
  [record_id |-> record_id, kind |-> 4,
   payload |-> <<"map", [k \in 0..2 |->
       CASE k = 0 -> <<"text", resource_id>>
         [] k = 1 -> <<"text", resource_key_id>>
         [] k = 2 -> <<"bytes", resource_key>>]>>]

\* ciphersuite.rs decode_user_keypair: the recipient rebuilt from its two encodings
decode_user_keypair(uk_priv, uk_pub) ==
  [secret |-> uk_priv, public_bytes |-> uk_pub]

\* cbor.rs req_text / req_bytes / req_uint on a payload map
HasTyped(payload, k, type) ==
  payload[1] = "map" /\ k \in DOMAIN payload[2] /\ payload[2][k][1] = type

apply_record_plain(record, materialized) ==
  LET p == record.payload IN
  CASE record.kind = 1 ->
         IF HasTyped(p, 0, "bytes") /\ HasTyped(p, 1, "bytes")
         THEN Ok([materialized EXCEPT
                    !.user_key = Some(decode_user_keypair(p[2][0][2], p[2][1][2]))])
         ELSE Err("Cbor")
    [] record.kind = 2 ->
         IF HasTyped(p, 0, "text") /\ HasTyped(p, 1, "bytes") /\ HasTyped(p, 2, "bytes")
              /\ HasTyped(p, 3, "text") /\ HasTyped(p, 4, "bytes") /\ HasTyped(p, 5, "bytes")
         THEN IF p[2][3][2] = "hybrid-sig-1"
              THEN Ok([materialized EXCEPT
                         !.device_signing_keys =
                            MapPut(@, p[2][0][2],
                                   [ed25519_priv |-> p[2][1][2], ed25519_pub |-> p[2][2][2],
                                    mldsa_priv |-> p[2][4][2], mldsa_pub |-> p[2][5][2]])])
              ELSE Err("Format")
         ELSE Err("Cbor")
    [] record.kind = 3 ->
         IF HasTyped(p, 0, "text") /\ HasTyped(p, 1, "uint") /\ HasTyped(p, 2, "bytes")
         THEN Ok([materialized EXCEPT
                    !.scope_keys = MapPut(@, <<p[2][0][2], p[2][1][2]>>, p[2][2][2])])
         ELSE Err("Cbor")
    [] record.kind = 4 ->
         IF HasTyped(p, 0, "text") /\ HasTyped(p, 1, "text") /\ HasTyped(p, 2, "bytes")
         THEN Ok([materialized EXCEPT
                    !.resource_keys = MapPut(@, <<p[2][0][2], p[2][1][2]>>, p[2][2][2])])
         ELSE Err("Cbor")
    [] OTHER -> Ok(materialized)

\* sort_by_key(|r| r.seq): a stable insertion sort
\* a replay that takes the batch in the order given
SortBySeq_keep_order(containers) == containers

RECURSIVE InsertBySeq(_, _)
InsertBySeq(sorted, c) ==
  IF sorted = <<>> THEN <<c>>
  ELSE IF sorted[Len(sorted)].seq <= c.seq
       THEN Append(sorted, c)
       ELSE Append(InsertBySeq(SubSeq(sorted, 1, Len(sorted) - 1), c), sorted[Len(sorted)])

RECURSIVE SortBySeq(_)
SortBySeq(containers) ==
  IF containers = <<>> THEN <<>>
  ELSE InsertBySeq(SortBySeq(SubSeq(containers, 1, Len(containers) - 1)),
                   containers[Len(containers)])

\* a replay loop without the record_id set
RECURSIVE ApplyLoop_ids_unchecked(_, _, _, _, _, _, _, _)
ApplyLoop_ids_unchecked(header, vault_key, sorted, i, prev_hash, seen_record_ids, state, materialized) ==
  IF i > Len(sorted) THEN Ok([state |-> state, materialized |-> materialized])
  ELSE
    LET container == sorted[i]
        hash == sha256(encode_keyvault_record_container_v1(container))
        aad == aad_keyvault_record_v1(header.vault_id, header.user_id, header.aead,
                                      container.record_id)
        opened == aead_decrypt(vault_key, aad, container.nonce, container.ct)
        plain == decode_keyvault_record_plain_v1(opened.val)
        applied == apply_record_plain(plain.val, materialized)
    IN
    IF container.seq # i THEN Err("Format")
    ELSE IF container.prev_hash # prev_hash THEN Err("Format")
    ELSE IF ~opened.ok THEN Err("Format")
    ELSE IF ~plain.ok THEN Err(plain.err)
    ELSE IF plain.val.record_id # container.record_id THEN Err("Format")
    ELSE IF ~applied.ok THEN Err(applied.err)
    ELSE ApplyLoop_ids_unchecked(header, vault_key, sorted, i + 1, hash, seen_record_ids,
                                 [head_seq |-> container.seq, head_hash |-> hash,
                                  records |-> Append(state.records, container)],
                                 applied.val)

\* a replay loop that stops at the first bad container and keeps what it has applied
RECURSIVE ApplyLoop_keeps_prefix(_, _, _, _, _, _, _, _)
ApplyLoop_keeps_prefix(header, vault_key, sorted, i, prev_hash, seen_record_ids, state, materialized) ==
  IF i > Len(sorted) THEN Ok([state |-> state, materialized |-> materialized])
  ELSE
    LET container == sorted[i]
        hash == sha256(encode_keyvault_record_container_v1(container))
        aad == aad_keyvault_record_v1(header.vault_id, header.user_id, header.aead,
                                      container.record_id)
        opened == aead_decrypt(vault_key, aad, container.nonce, container.ct)
        plain == decode_keyvault_record_plain_v1(opened.val)
        applied == apply_record_plain(plain.val, materialized)
    IN
    IF \/ container.seq # i
       \/ container.record_id \in seen_record_ids
       \/ container.prev_hash # prev_hash
       \/ ~opened.ok
       \/ ~plain.ok
       \/ plain.val.record_id # container.record_id
       \/ ~applied.ok
    THEN Ok([state |-> state, materialized |-> materialized])
    ELSE ApplyLoop_keeps_prefix(header, vault_key, sorted, i + 1, hash,
                                seen_record_ids \cup {container.record_id},
                                [head_seq |-> container.seq, head_hash |-> hash,
                                 records |-> Append(state.records, container)],
                                applied.val)

RECURSIVE ApplyLoop(_, _, _, _, _, _, _, _)
ApplyLoop(header, vault_key, sorted, i, prev_hash, seen_record_ids, state, materialized) ==
  IF i > Len(sorted) THEN Ok([state |-> state, materialized |-> materialized])
  ELSE
    LET container == sorted[i]
        hash == sha256(encode_keyvault_record_container_v1(container))
        aad == aad_keyvault_record_v1(header.vault_id, header.user_id, header.aead,
                                      container.record_id)
        opened == aead_decrypt(vault_key, aad, container.nonce, container.ct)
        plain == decode_keyvault_record_plain_v1(opened.val)
        applied == apply_record_plain(plain.val, materialized)
    IN
    IF container.seq # i THEN Err("Format")
    ELSE IF container.record_id \in seen_record_ids THEN Err("Format")
    ELSE IF container.prev_hash # prev_hash THEN Err("Format")
    ELSE IF ~opened.ok THEN Err("Format")
    ELSE IF ~plain.ok THEN Err(plain.err)
    ELSE IF plain.val.record_id # container.record_id THEN Err("Format")
    ELSE IF ~applied.ok THEN Err(applied.err)
    ELSE ApplyLoop(header, vault_key, sorted, i + 1, hash,
                   seen_record_ids \cup {container.record_id},
                   [head_seq |-> container.seq, head_hash |-> hash,
                    records |-> Append(state.records, container)],
                   applied.val)

apply_containers(header, vault_key, containers) ==
  ApplyLoop(header, vault_key, SortBySeq(containers), 1, ZeroHash, {},
            KeyVaultStateDefault, KeyVaultMaterializedDefault)

\* append_record: the result carries the new state and the container
append_record_bad_head(self, header, vault_key, record, seq, nonce) ==
  LET aad == aad_keyvault_record_v1(header.vault_id, header.user_id, header.aead,
                                    record.record_id)
      ct == aead_encrypt(vault_key, aad, encode_keyvault_record_plain_v1(record), nonce)
      container == [v |-> 1, seq |-> seq, prev_hash |-> self.head_hash,
                    record_id |-> record.record_id, nonce |-> nonce, ct |-> ct]
  IN
  IF seq # self.head_seq + 1 THEN Err("Format")
  ELSE IF \E i \in DOMAIN self.records : self.records[i].record_id = record.record_id
       THEN Err("Format")
  ELSE Ok([state |-> [head_seq |-> seq,
                      head_hash |-> self.head_hash,
                      records |-> Append(self.records, container)],
           container |-> container])

append_record(self, header, vault_key, record, seq, nonce) ==
  LET aad == aad_keyvault_record_v1(header.vault_id, header.user_id, header.aead,
                                    record.record_id)
      ct == aead_encrypt(vault_key, aad, encode_keyvault_record_plain_v1(record), nonce)
      container == [v |-> 1, seq |-> seq, prev_hash |-> self.head_hash,
                    record_id |-> record.record_id, nonce |-> nonce, ct |-> ct]
      hash == sha256(encode_keyvault_record_container_v1(container))
  IN
  IF seq # self.head_seq + 1 THEN Err("Format")
  ELSE IF \E i \in DOMAIN self.records : self.records[i].record_id = record.record_id
       THEN Err("Format")
  ELSE Ok([state |-> [head_seq |-> seq,
                      head_hash |-> hash,
                      records |-> Append(self.records, container)],
           container |-> container])

(***************************************************************************)
(* session.rs                                                              *)
(***************************************************************************)
Zeroized == <<"zeroized">>

SessionNew(session_id, issued_at_ms, expires_at_ms, kind, assurance, vault_key, max_handles) ==
  [session_id |-> session_id, issued_at_ms |-> issued_at_ms,
   expires_at_ms |-> expires_at_ms, kind |-> kind, assurance |-> assurance,
   vault_key |-> vault_key, max_handles |-> max_handles,
   handles |-> EmptyMap, handle_order |-> <<>>]

SeqWithout(seq, x) == SelectSeq(seq, LAMBDA e : e # x)

\* touch_handle: drop the key's position, push it to the back
touch_handle(self, key) ==
  [self EXCEPT !.handle_order = Append(SeqWithout(@, key), key)]

\* the eviction loop of insert_handle
RECURSIVE EvictWhileFull(_)
EvictWhileFull(self) ==
  IF Cardinality(DOMAIN self.handles) >= self.max_handles
  THEN IF self.handle_order # <<>>
       THEN EvictWhileFull([self EXCEPT
                              !.handles = MapRemove(@, self.handle_order[1]),
                              !.handle_order = Tail(@)])
       ELSE self
  ELSE self

insert_handle(self, entry, id) ==
  LET evicted == EvictWhileFull(self) IN
  touch_handle([evicted EXCEPT !.handles = MapPut(@, id, entry)], id)

get_handle(self, handle) ==
  IF MapHas(self.handles, handle)
  THEN [session |-> touch_handle(self, handle), entry |-> Some(self.handles[handle])]
  ELSE [session |-> self, entry |-> None]

\* a remove_handle that leaves the order deque alone
remove_handle_order_kept(self, handle) ==
  [self EXCEPT !.handles = MapRemove(@, handle)]

remove_handle(self, handle) ==
  [self EXCEPT !.handles = MapRemove(@, handle),
               !.handle_order = SeqWithout(@, handle)]

SessionClear(self) ==
  [self EXCEPT !.handles = EmptyMap, !.handle_order = <<>>, !.vault_key = Zeroized]

(***************************************************************************)
(* crypto.rs, ciphersuite.rs.  Key pair n has private parts tagged n and   *)
(* public parts tagged n; a signature component names the key that made it *)
(* and the data it was made over.                                          *)
(***************************************************************************)
KdfParams(salt) == [id |-> "kdf-1", salt |-> salt, params |-> "m65536-t3-p1"]

derive_kek(passphrase_utf8, params) ==
  IF params.id # "kdf-1" THEN Err("Crypto")
  ELSE Ok(<<"kek", passphrase_utf8, params.salt, params.params>>)

hkdf_sha256(ikm, info) == <<"hkdf", ikm, info>>

HybridSignatureKeypair(n) ==
  [ed25519_priv |-> <<"edpriv", n>>, ed25519_pub |-> <<"edpub", n>>,
   mldsa_priv |-> <<"mlpriv", n>>, mldsa_pub |-> <<"mlpub", n>>]

SignerKeys(ed25519_pub, mldsa_pub) ==
  [sig_suite |-> "hybrid-sig-1", ed25519_pub |-> ed25519_pub, mldsa_pub |-> mldsa_pub]

pack_hybrid_signature(ed_sig, mldsa_sig) == <<"sig", ed_sig, mldsa_sig>>

hybrid_sign(data, keypair) ==
  pack_hybrid_signature(<<"ed", keypair.ed25519_priv[2], data>>,
                        <<"ml", keypair.mldsa_priv[2], data>>)

hybrid_verify(data, signature, signer) ==
  /\ signer.sig_suite = "hybrid-sig-1"
  /\ Len(signature) = 3 /\ signature[1] = "sig"
  /\ signer.ed25519_pub[1] = "edpub" /\ signer.mldsa_pub[1] = "mlpub"
  /\ signature[2] = <<"ed", signer.ed25519_pub[2], data>>
  /\ signature[3] = <<"ml", signer.mldsa_pub[2], data>>

\* generate_user_keypair: the recipient and its private encoding
generate_user_keypair(n) ==
  [recipient |-> [secret |-> <<"ukpriv", n>>, public_bytes |-> <<"ukpub", n>>],
   private_bytes |-> <<"ukpriv", n>>]

\* the sender's side: a ciphertext for the recipient's public key and the wrap key
hybrid_kem_encapsulate(recipient_public_bytes, eph) ==
  [enc |-> <<"kemct", recipient_public_bytes[2], eph>>,
   wrap_key |-> hkdf_sha256(<<"shared", recipient_public_bytes[2], eph>>,
                            "mo-key-envelope|hybrid-kem-1")]

\* decapsulation under another key yields another shared secret
derive_hybrid_kem_wrap_key(enc, recipient, kem) ==
  IF kem # "hybrid-kem-1" THEN Err("Crypto")
  ELSE IF ~(Len(enc) = 3 /\ enc[1] = "kemct") THEN Err("Crypto")
  ELSE IF enc[2] = recipient.secret[2]
       THEN Ok(hkdf_sha256(<<"shared", enc[2], enc[3]>>, "mo-key-envelope|hybrid-kem-1"))
       ELSE Ok(hkdf_sha256(<<"reject", enc[2], recipient.secret[2], enc[3]>>,
                           "mo-key-envelope|hybrid-kem-1"))

fingerprint_bytes(bytes) == sha256(bytes)
fingerprint_signer(signer) == <<"hex", sha256(<<signer.ed25519_pub, signer.mldsa_pub>>)>>
hex_encode(bytes) == <<"hex", bytes>>

(***************************************************************************)
(* formats.rs: the keyvault header and snapshot.                           *)
(***************************************************************************)
RECURSIVE DecodeAll(_, _, _)
DecodeAll(items, i, acc) ==
  IF i > Len(items) THEN Ok(acc)
  ELSE LET r == decode_record_container(items[i]) IN
       IF r.ok THEN DecodeAll(items, i + 1, Append(acc, r.val)) ELSE r

decode_record_containers(value) ==
  IF value[1] = "array" THEN DecodeAll(value[2], 1, <<>>) ELSE Err("Cbor")

header_value(header) ==
  cbor_map([k \in 0..6 |->
    CASE k = 0 -> cbor_uint(header.v)
      [] k = 1 -> cbor_text(header.vault_id)
      [] k = 2 -> cbor_text(header.user_id)
      [] k = 3 -> kdf_map(header.kdf)
      [] k = 4 -> cbor_text(header.aead)
      [] k = 5 -> cbor_array([i \in DOMAIN header.records |->
                                encode_record_container_value(header.records[i])])
      [] k = 6 -> cbor_map([j \in 0..2 |->
                    CASE j = 0 -> cbor_text(header.vault_key_wrap.aead)
                      [] j = 1 -> cbor_bytes(header.vault_key_wrap.nonce)
                      [] j = 2 -> cbor_bytes(header.vault_key_wrap.ct)])])

encode_keyvault_header_v1(header) == encode_canonical_value(header_value(header))

decode_kdf(value) ==
  IF IsMap(value) /\ HasKey(value, 0, "text") /\ HasKey(value, 1, "bytes")
       /\ HasKey(value, 2, "text")
  THEN Ok([id |-> Field(value, 0), salt |-> Field(value, 1), params |-> Field(value, 2)])
  ELSE Err("Cbor")

decode_vault_key_wrap(value) ==
  IF IsMap(value) /\ HasKey(value, 0, "text") /\ HasKeys(value, {1, 2}, "bytes")
  THEN IF Field(value, 0) = "aead-1"
       THEN Ok([aead |-> Field(value, 0), nonce |-> Field(value, 1), ct |-> Field(value, 2)])
       ELSE Err("Format")
  ELSE Err("Cbor")

decode_header_value(value) ==
  IF ~(IsMap(value) /\ HasKey(value, 0, "uint") /\ HasKeys(value, {1, 2, 4}, "text")
         /\ {3, 5, 6} \subseteq DOMAIN value[2])
  THEN Err("Cbor")
  ELSE LET kdf == decode_kdf(value[2][3])
           records == decode_record_containers(value[2][5])
           wrap == decode_vault_key_wrap(value[2][6])
       IN
       IF ~kdf.ok THEN kdf
       ELSE IF Field(value, 4) # "aead-1" THEN Err("Format")
       ELSE IF ~records.ok THEN records
       ELSE IF ~wrap.ok THEN wrap
       ELSE Ok([v |-> Field(value, 0), vault_id |-> Field(value, 1),
                user_id |-> Field(value, 2), kdf |-> kdf.val, aead |-> Field(value, 4),
                records |-> records.val, vault_key_wrap |-> wrap.val])

decode_keyvault_header_v1(bytes) ==
  LET value == decode_canonical_value(bytes) IN
  IF value.ok THEN decode_header_value(value.val) ELSE value

encode_keyvault_snapshot_v1(snapshot) ==
  encode_canonical_value(cbor_map(
    [k \in 0..1 |-> IF k = 0 THEN header_value(snapshot.header)
                    ELSE cbor_array([i \in DOMAIN snapshot.records |->
                           encode_record_container_value(snapshot.records[i])])]))

KeyVaultSnapshotV1_from_cbor(value) ==
  IF ~IsMap(value) THEN Err("Cbor")
  ELSE IF ~({0, 1} \subseteq DOMAIN value[2]) THEN Err("Format")
  ELSE LET header == decode_header_value(value[2][0])
           records == decode_record_containers(value[2][1])
       IN
       IF ~header.ok THEN header
       ELSE IF ~records.ok THEN records
       ELSE Ok([header |-> header.val, records |-> records.val])

(***************************************************************************)
(* formats.rs: scope states, key envelopes and resource grants.            *)
(***************************************************************************)
scope_state_value(ss, keys) ==
  cbor_map([k \in keys |->
    CASE k = 0 -> cbor_uint(ss.v)
      [] k = 1 -> cbor_text(ss.scope_id)
      [] k = 2 -> cbor_uint(ss.scope_state_seq)
      [] k = 3 -> cbor_bytes(ss.prev_hash)
      [] k = 4 -> cbor_uint(ss.scope_epoch)
      [] k = 5 -> cbor_uint(ss.kind)
      [] k = 6 -> ss.payload
      [] k = 7 -> cbor_text(ss.signer_device_id)
      [] k = 8 -> cbor_text(ss.sig_suite)
      [] k = 9 -> cbor_bytes(ss.signature)])

encode_scope_state_v1(scope_state) ==
  encode_canonical_value(scope_state_value(scope_state, 0..9))

ScopeStateV1_from_cbor(value) ==
  IF ~(IsMap(value) /\ HasKeys(value, {0, 2, 4, 5}, "uint") /\ HasKeys(value, {1, 7, 8}, "text")
         /\ HasKeys(value, {3, 9}, "bytes") /\ 6 \in DOMAIN value[2])
  THEN Err("Cbor")
  ELSE IF Field(value, 8) # "hybrid-sig-1" THEN Err("Format")
  ELSE Ok([v |-> Field(value, 0), scope_id |-> Field(value, 1),
           scope_state_seq |-> Field(value, 2), prev_hash |-> Field(value, 3),
           scope_epoch |-> Field(value, 4), kind |-> Field(value, 5),
           payload |-> value[2][6], signer_device_id |-> Field(value, 7),
           sig_suite |-> Field(value, 8), signature |-> Field(value, 9)])

scope_state_to_be_signed_bytes(self) ==
  encode_canonical_value(scope_state_value(self, 0..8))

scope_state_ref_bytes(self) ==
  sha256(encode_canonical_value(scope_state_value(self, 0..9)))

key_envelope_value(e, keys) ==
  cbor_map([k \in keys |->
    CASE k = 0 -> cbor_uint(e.v)
      [] k = 1 -> cbor_text(e.envelope_id)
      [] k = 2 -> cbor_text(e.scope_id)
      [] k = 3 -> cbor_uint(e.scope_epoch)
      [] k = 4 -> cbor_text(e.recipient_user_id)
      [] k = 5 -> cbor_bytes(e.scope_state_ref)
      [] k = 6 -> cbor_text(e.kem)
      [] k = 7 -> cbor_text(e.aead)
      [] k = 8 -> cbor_bytes(e.enc)
      [] k = 9 -> cbor_bytes(e.nonce)
      [] k = 10 -> cbor_bytes(e.wrapped_scope_key)
      [] k = 11 -> cbor_text(e.signer_device_id)
      [] k = 12 -> cbor_text(e.sig_suite)
      [] k = 13 -> cbor_bytes(e.signature)
      [] k = 14 -> cbor_bytes(Unwrap(e.recipient_uk_pub_fingerprint))])

FingerprintKey(e) == IF IsSome(e.recipient_uk_pub_fingerprint) THEN {14} ELSE {}

encode_key_envelope_v1(envelope) ==
  encode_canonical_value(key_envelope_value(envelope, (0..13) \cup FingerprintKey(envelope)))

KeyEnvelopeV1_from_cbor(value) ==
  IF ~(IsMap(value) /\ HasKeys(value, {0, 3}, "uint")
         /\ HasKeys(value, {1, 2, 4, 6, 7, 11, 12}, "text")
         /\ HasKeys(value, {5, 8, 9, 10, 13}, "bytes")
         /\ (14 \in DOMAIN value[2] => HasKey(value, 14, "bytes")))
  THEN Err("Cbor")
  ELSE IF Field(value, 6) # "hybrid-kem-1" \/ Field(value, 7) # "aead-1"
            \/ Field(value, 12) # "hybrid-sig-1"
       THEN Err("Format")
  ELSE Ok([v |-> Field(value, 0), envelope_id |-> Field(value, 1),
           scope_id |-> Field(value, 2), scope_epoch |-> Field(value, 3),
           recipient_user_id |-> Field(value, 4), scope_state_ref |-> Field(value, 5),
           kem |-> Field(value, 6), aead |-> Field(value, 7), enc |-> Field(value, 8),
           nonce |-> Field(value, 9), wrapped_scope_key |-> Field(value, 10),
           signer_device_id |-> Field(value, 11), sig_suite |-> Field(value, 12),
           signature |-> Field(value, 13),
           recipient_uk_pub_fingerprint |->
             IF 14 \in DOMAIN value[2] THEN Some(Field(value, 14)) ELSE None])

key_envelope_to_be_signed_bytes(self) ==
  encode_canonical_value(key_envelope_value(self, (0..12) \cup FingerprintKey(self)))

resource_grant_value(g, keys) ==
  cbor_map([k \in keys |->
    CASE k = 0 -> cbor_uint(g.v)
      [] k = 1 -> cbor_text(g.grant_id)
      [] k = 2 -> cbor_text(g.scope_id)
      [] k = 3 -> cbor_uint(g.grant_seq)
      [] k = 4 -> cbor_bytes(g.prev_hash)
      [] k = 5 -> cbor_bytes(g.scope_state_ref)
      [] k = 6 -> cbor_uint(g.scope_epoch)
      [] k = 7 -> cbor_text(g.resource_id)
      [] k = 8 -> cbor_text(g.resource_key_id)
      [] k = 9 -> Unwrap(g.policy)
      [] k = 10 -> cbor_text(g.aead)
      [] k = 11 -> cbor_bytes(g.nonce)
      [] k = 12 -> cbor_bytes(g.wrapped_key)
      [] k = 13 -> cbor_text(g.signer_device_id)
      [] k = 14 -> cbor_text(g.sig_suite)
      [] k = 15 -> cbor_bytes(g.signature)])

GrantKeys(g, last) == ((0..last) \ {9}) \cup (IF IsSome(g.policy) THEN {9} ELSE {})

encode_resource_grant_v1(grant) ==
  encode_canonical_value(resource_grant_value(grant, GrantKeys(grant, 15)))

ResourceGrantV1_from_cbor(value) ==
  IF ~(IsMap(value) /\ HasKeys(value, {0, 3, 6}, "uint")
         /\ HasKeys(value, {1, 2, 7, 8, 10, 13, 14}, "text")
         /\ HasKeys(value, {4, 5, 11, 12, 15}, "bytes"))
  THEN Err("Cbor")
  ELSE IF Field(value, 10) # "aead-1" \/ Field(value, 14) # "hybrid-sig-1"
       THEN Err("Format")
  ELSE Ok([v |-> Field(value, 0), grant_id |-> Field(value, 1),
           scope_id |-> Field(value, 2), grant_seq |-> Field(value, 3),
           prev_hash |-> Field(value, 4), scope_state_ref |-> Field(value, 5),
           scope_epoch |-> Field(value, 6), resource_id |-> Field(value, 7),
           resource_key_id |-> Field(value, 8),
           policy |-> IF 9 \in DOMAIN value[2] THEN Some(value[2][9]) ELSE None,
           aead |-> Field(value, 10), nonce |-> Field(value, 11),
           wrapped_key |-> Field(value, 12), signer_device_id |-> Field(value, 13),
           sig_suite |-> Field(value, 14), signature |-> Field(value, 15)])

resource_grant_to_be_signed_bytes(self) ==
  encode_canonical_value(resource_grant_value(self, GrantKeys(self, 14)))

(***************************************************************************)
(* key_service.rs.  A handler is a function from the service (self), the   *)
(* clock reading and the call's arguments to the service after the call    *)
(* and the call's result.  self.entropy counts the fresh values drawn so   *)
(* far of each kind; a value drawn on a path that fails before using it is *)
(* not counted.                                                            *)
(***************************************************************************)
Ret(self, res) == [self |-> self, res |-> res]
Unit == <<>>

\* impl From<CoreError> for KeyServiceError
FromCoreError(err) ==
  CASE err = "Cbor" -> "InvalidCbor"
    [] err = "Format" -> "InvalidFormat"
    [] err = "Crypto" -> "CryptoError"
    [] err = "Entropy" -> "CryptoError"

HeaderKey == <<"header">>
RecordIndexKey == <<"record_index">>
WebauthnPrfKey == <<"webauthn_prf">>
RecordKey(record_id) == <<"record", record_id>>
EmptyBytes == <<>>

storage_get(self, key) ==
  IF MapHas(self.storage, key) THEN Some(self.storage[key]) ELSE None

storage_put(self, key, value) == [self EXCEPT !.storage = MapPut(@, key, value)]

SignerRosterDefault == [scopes |-> EmptyMap, scope_state_refs |-> EmptyMap]

get_signer(roster, scope_id, device_id) ==
  IF MapHas(roster.scopes, scope_id) /\ MapHas(roster.scopes[scope_id], device_id)
  THEN Some(roster.scopes[scope_id][device_id])
  ELSE None

upsert_signer(roster, scope_id, device_id, signer) ==
  LET scope == IF MapHas(roster.scopes, scope_id) THEN roster.scopes[scope_id] ELSE EmptyMap
  IN [roster EXCEPT !.scopes = MapPut(@, scope_id, MapPut(scope, device_id, signer))]

insert_scope_state_ref(roster, scope_id, scope_state_ref_hex) ==
  LET set == IF MapHas(roster.scope_state_refs, scope_id)
             THEN roster.scope_state_refs[scope_id] ELSE {}
  IN [roster EXCEPT !.scope_state_refs = MapPut(@, scope_id, set \cup {scope_state_ref_hex})]

\* a roster that takes every scope_state_ref as accepted
has_scope_state_ref_any(roster, scope_id, scope_state_ref_hex) == TRUE

has_scope_state_ref(roster, scope_id, scope_state_ref_hex) ==
  /\ MapHas(roster.scope_state_refs, scope_id)
  /\ scope_state_ref_hex \in roster.scope_state_refs[scope_id]

KeyServicePolicy(max_handles) ==
  [normal_session_ttl_ms |-> normal_session_ttl_ms,
   step_up_session_ttl_ms |-> step_up_session_ttl_ms,
   max_handles_per_session |-> max_handles]

KeyServiceNew(config) ==
  [storage |-> EmptyMap, sessions |-> EmptyMap, state |-> None, config |-> config,
   entropy |-> [sid |-> 0, rec |-> 0, wrap |-> 0, hnd |-> 0, key |-> 0]]

\* a validity check that refuses a session at now = expires_at_ms
ensure_session_valid_exclusive(self, now_ms, session_id) ==
  IF ~MapHas(self.sessions, session_id) THEN Ret(self, Err("SessionInvalid"))
  ELSE IF now_ms >= self.sessions[session_id].expires_at_ms
       THEN Ret([self EXCEPT !.sessions = MapRemove(@, session_id), !.state = None],
                Err("SessionInvalid"))
       ELSE Ret(self, Ok(Unit))

ensure_session_valid(self, now_ms, session_id) ==
  IF ~MapHas(self.sessions, session_id) THEN Ret(self, Err("SessionInvalid"))
  ELSE IF now_ms > self.sessions[session_id].expires_at_ms
       THEN Ret([self EXCEPT !.sessions = MapRemove(@, session_id), !.state = None],
                Err("SessionInvalid"))
       ELSE Ret(self, Ok(Unit))

\* Result::map_err: a failure becomes the given error
map_err(r, kind) == IF r.ok THEN r ELSE Err(kind)

load_header(self) ==
  LET bytes == storage_get(self, HeaderKey) IN
  IF ~IsSome(bytes) THEN Err("InvalidFormat")
  ELSE map_err(decode_keyvault_header_v1(Unwrap(bytes)), "InvalidCbor")

encode_record_index(index) ==
  encode_canonical_value(cbor_array([i \in DOMAIN index |-> cbor_text(index[i])]))

load_record_index(self) ==
  LET got == storage_get(self, RecordIndexKey)
      index_bytes == IF IsSome(got) THEN Unwrap(got) ELSE EmptyBytes
      value == decode_canonical_value(index_bytes)
  IN
  IF Len(index_bytes) = 0 THEN Ok(<<>>)
  ELSE IF ~value.ok THEN Err("InvalidCbor")
  ELSE IF value.val[1] # "array" THEN Err("InvalidCbor")
  ELSE IF \E i \in DOMAIN value.val[2] : value.val[2][i][1] # "text" THEN Err("InvalidCbor")
  ELSE Ok([i \in DOMAIN value.val[2] |-> value.val[2][i][2]])

RECURSIVE LoadContainers(_, _, _, _)
LoadContainers(self, ids, i, records) ==
  IF i > Len(ids) THEN Ok(records)
  ELSE LET got == storage_get(self, RecordKey(ids[i])) IN
       IF ~IsSome(got) THEN LoadContainers(self, ids, i + 1, records)
       ELSE LET record == decode_keyvault_record_container_v1(Unwrap(got)) IN
            IF record.ok THEN LoadContainers(self, ids, i + 1, Append(records, record.val))
            ELSE Err("InvalidCbor")

\* load_all_record_containers once the index is read, and once the records are read
load_all_record_containers_sorted(records) ==
  IF records.ok THEN Ok(SortBySeq(records.val)) ELSE records

load_all_record_containers_indexed(self, ids) ==
  IF ~ids.ok THEN ids
  ELSE load_all_record_containers_sorted(LoadContainers(self, ids.val, 1, <<>>))

load_all_record_containers(self) ==
  load_all_record_containers_indexed(self, load_record_index(self))

\* load_keyvault_state once the containers are read
load_keyvault_state_replay(header, vault_key, records) ==
  IF ~records.ok THEN records
  ELSE map_err(apply_containers(header, vault_key, records.val), "InvalidFormat")

load_keyvault_state(self, header, vault_key) ==
  load_keyvault_state_replay(header, vault_key, load_all_record_containers(self))

\* finish_unlock once the session is inserted and the ledger replayed
finish_unlock_loaded(self, header, issued, loaded) ==
  IF ~loaded.ok THEN Ret(self, loaded)
  ELSE Ret([self EXCEPT !.state =
              Some([keyvault_header |-> header,
                    keyvault_state |-> loaded.val.state,
                    keyvault_materialized |-> loaded.val.materialized,
                    signer_roster |-> SignerRosterDefault])],
           Ok(issued))

finish_unlock(self, now_ms, header, vault_key, assurance, kind) ==
  LET ttl == IF kind = "Normal" THEN self.config.policy.normal_session_ttl_ms
             ELSE self.config.policy.step_up_session_ttl_ms
      session_id == self.entropy.sid + 1
      session == SessionNew(session_id, now_ms, now_ms + ttl, kind, assurance, vault_key,
                            self.config.policy.max_handles_per_session)
      inserted == [self EXCEPT !.sessions = MapPut(@, session_id, session),
                               !.entropy.sid = session_id]
  IN
  finish_unlock_loaded(inserted, header,
                       [session_id |-> session_id, issued_at_ms |-> now_ms,
                        expires_at_ms |-> now_ms + ttl, kind |-> kind,
                        assurance |-> assurance],
                       load_keyvault_state(inserted, header, vault_key))

create_new_vault(self, user_id, passphrase_utf8, kdf_params) ==
  LET n == self.entropy.wrap + 1
      vault_id == <<"vault", n>>
      kek == derive_kek(passphrase_utf8, kdf_params)
      vault_key == <<"vk", n>>
      aad == aad_keyvault_keywrap_v1(vault_id, user_id, kdf_params, "aead-1")
      nonce == <<"wrap-nonce", n>>
      ct == aead_encrypt(kek.val, aad, vault_key, nonce)
      header == [v |-> 1, vault_id |-> vault_id, user_id |-> user_id, kdf |-> kdf_params,
                 aead |-> "aead-1", records |-> <<>>,
                 vault_key_wrap |-> [aead |-> "aead-1", nonce |-> nonce, ct |-> ct]]
      put1 == storage_put([self EXCEPT !.entropy.wrap = n], HeaderKey,
                          encode_keyvault_header_v1(header))
  IN
  IF ~kek.ok THEN Ret(self, Err("CryptoError"))
  ELSE Ret(storage_put(put1, RecordIndexKey, EmptyBytes), Ok(Unit))

\* the header's vault key wrap opened with a passphrase
unwrap_vault_key(header, passphrase_utf8) ==
  LET kek == derive_kek(passphrase_utf8, header.kdf)
      aad == aad_keyvault_keywrap_v1(header.vault_id, header.user_id, header.kdf, header.aead)
  IN
  IF ~kek.ok THEN Err("CryptoError")
  ELSE map_err(aead_decrypt(kek.val, aad, header.vault_key_wrap.nonce,
                            header.vault_key_wrap.ct),
               "CryptoError")

\* the tail shared by unlock_passphrase and unlock_webauthn_prf
unlock_with_vault_key(self, now_ms, header, vault_key, assurance) ==
  IF ~vault_key.ok THEN Ret(self, vault_key)
  ELSE finish_unlock(self, now_ms, header, vault_key.val, assurance, "Normal")

unlock_passphrase_with_header(self, now_ms, passphrase_utf8, header) ==
  IF ~header.ok THEN Ret(self, header)
  ELSE unlock_with_vault_key(self, now_ms, header.val,
                             unwrap_vault_key(header.val, passphrase_utf8), "Passphrase")

unlock_passphrase(self, now_ms, passphrase_utf8) ==
  unlock_passphrase_with_header(self, now_ms, passphrase_utf8, load_header(self))

WebAuthnPrfUnlockV1_encode(info) ==
  encode_canonical_value(cbor_map(
    [k \in 0..2 |-> CASE k = 0 -> cbor_bytes(info.credential_id)
                      [] k = 1 -> cbor_bytes(info.nonce)
                      [] k = 2 -> cbor_bytes(info.ct)]))

WebAuthnPrfUnlockV1_decode(bytes) ==
  LET value == decode_canonical_value(bytes) IN
  IF ~value.ok THEN Err("InvalidCbor")
  ELSE IF IsMap(value.val) /\ HasKeys(value.val, {0, 1, 2}, "bytes")
       THEN Ok([credential_id |-> Field(value.val, 0), nonce |-> Field(value.val, 1),
                ct |-> Field(value.val, 2)])
       ELSE Err("InvalidCbor")

load_webauthn_prf_unlock(self) ==
  LET bytes == storage_get(self, WebauthnPrfKey) IN
  IF ~IsSome(bytes) THEN Err("InvalidFormat")
  ELSE IF Len(Unwrap(bytes)) = 0 THEN Err("InvalidFormat")
  ELSE WebAuthnPrfUnlockV1_decode(Unwrap(bytes))

unlock_webauthn_prf_with_header(self, now_ms, prf_output, header) ==
  IF ~header.ok THEN Ret(self, header)
  ELSE
    LET prf_key == hkdf_sha256(prf_output, "mo-webauthn-prf|unwrap-k-vault|v1")
        aad == aad_webauthn_prf_wrap_v1(header.val.vault_id, header.val.user_id,
                                        header.val.kdf, header.val.aead)
        prf_info == load_webauthn_prf_unlock(self)
    IN
    IF ~prf_info.ok THEN Ret(self, prf_info)
    ELSE unlock_with_vault_key(self, now_ms, header.val,
                               map_err(aead_decrypt(prf_key, aad, prf_info.val.nonce,
                                                    prf_info.val.ct),
                                       "CryptoError"),
                               "WebAuthnPrf")

unlock_webauthn_prf(self, now_ms, prf_output) ==
  unlock_webauthn_prf_with_header(self, now_ms, prf_output, load_header(self))

\* a step-up that grants the normal lifetime
step_up_with_header_normal_ttl(self, now_ms, session_id, passphrase_utf8, header) ==
  IF ~header.ok THEN Ret(self, header)
  ELSE
    LET vault_key == unwrap_vault_key(header.val, passphrase_utf8) IN
    IF ~vault_key.ok THEN Ret(self, vault_key)
    ELSE
      LET valid == ensure_session_valid(self, now_ms, session_id) IN
      IF ~valid.res.ok THEN valid
      ELSE IF vault_key.val # self.sessions[session_id].vault_key
           THEN Ret(self, Err("CryptoError"))
      ELSE Ret([self EXCEPT
                  !.sessions[session_id].kind = "StepUp",
                  !.sessions[session_id].assurance = "Passphrase",
                  !.sessions[session_id].issued_at_ms = now_ms,
                  !.sessions[session_id].expires_at_ms =
                     now_ms + self.config.policy.normal_session_ttl_ms],
               Ok([issued_at_ms |-> now_ms,
                   expires_at_ms |-> now_ms + self.config.policy.normal_session_ttl_ms]))

step_up_with_header(self, now_ms, session_id, passphrase_utf8, header) ==
  IF ~header.ok THEN Ret(self, header)
  ELSE
    LET vault_key == unwrap_vault_key(header.val, passphrase_utf8) IN
    IF ~vault_key.ok THEN Ret(self, vault_key)
    ELSE
      LET valid == ensure_session_valid(self, now_ms, session_id) IN
      IF ~valid.res.ok THEN valid
      ELSE IF vault_key.val # self.sessions[session_id].vault_key
           THEN Ret(self, Err("CryptoError"))
      ELSE Ret([self EXCEPT
                  !.sessions[session_id].kind = "StepUp",
                  !.sessions[session_id].assurance = "Passphrase",
                  !.sessions[session_id].issued_at_ms = now_ms,
                  !.sessions[session_id].expires_at_ms =
                     now_ms + self.config.policy.step_up_session_ttl_ms],
               Ok([issued_at_ms |-> now_ms,
                   expires_at_ms |-> now_ms + self.config.policy.step_up_session_ttl_ms]))

step_up(self, now_ms, session_id, passphrase_utf8) ==
  step_up_with_header(self, now_ms, session_id, passphrase_utf8, load_header(self))

\* a renewal that does not look at the session kind
renew_session_any_kind(self, now_ms, session_id) ==
  LET valid == ensure_session_valid(self, now_ms, session_id) IN
  IF ~valid.res.ok THEN valid
  ELSE Ret([self EXCEPT
              !.sessions[session_id].issued_at_ms = now_ms,
              !.sessions[session_id].expires_at_ms =
                 now_ms + self.config.policy.normal_session_ttl_ms],
           Ok([issued_at_ms |-> now_ms,
               expires_at_ms |-> now_ms + self.config.policy.normal_session_ttl_ms]))

renew_session(self, now_ms, session_id) ==
  LET valid == ensure_session_valid(self, now_ms, session_id) IN
  IF ~valid.res.ok THEN valid
  ELSE IF self.sessions[session_id].kind = "StepUp" THEN Ret(self, Err("StepUpRequired"))
  ELSE Ret([self EXCEPT
              !.sessions[session_id].issued_at_ms = now_ms,
              !.sessions[session_id].expires_at_ms =
                 now_ms + self.config.policy.normal_session_ttl_ms],
           Ok([issued_at_ms |-> now_ms,
               expires_at_ms |-> now_ms + self.config.policy.normal_session_ttl_ms]))

lock(self, session_id) ==
  IF ~MapHas(self.sessions, session_id) THEN Ret(self, Err("SessionInvalid"))
  ELSE Ret([self EXCEPT !.sessions = MapRemove(@, session_id), !.state = None], Ok(Unit))

\* ensure_session_valid, then the check that the session is a step-up session
require_step_up(self, now_ms, session_id) ==
  LET valid == ensure_session_valid(self, now_ms, session_id) IN
  IF ~valid.res.ok THEN valid
  ELSE IF self.sessions[session_id].kind # "StepUp" THEN Ret(self, Err("StepUpRequired"))
  ELSE Ret(self, Ok(Unit))


\* export_keyvault once the header and the containers are read
export_keyvault_loaded(self, header, records) ==
  IF ~header.ok THEN Ret(self, header)
  ELSE IF ~records.ok THEN Ret(self, records)
  ELSE Ret(self, Ok(encode_keyvault_snapshot_v1(
                      [header |-> header.val, records |-> records.val])))

export_keyvault(self, now_ms, session_id) ==
  LET gate == require_step_up(self, now_ms, session_id) IN
  IF ~gate.res.ok THEN gate
  ELSE export_keyvault_loaded(self, load_header(self), load_all_record_containers(self))

RECURSIVE PutRecords(_, _, _)
PutRecords(self, records, i) ==
  IF i > Len(records) THEN self
  ELSE PutRecords(storage_put(self, RecordKey(records[i].record_id),
                              encode_keyvault_record_container_v1(records[i])),
                  records, i + 1)

\* import_keyvault once the blob is parsed
import_keyvault_decoded(self, snapshot) ==
  IF ~snapshot.ok THEN Ret(self, Err("InvalidFormat"))
  ELSE
    LET put1 == storage_put(self, HeaderKey, encode_keyvault_header_v1(snapshot.val.header))
        put2 == PutRecords(put1, snapshot.val.records, 1)
        index == [i \in DOMAIN snapshot.val.records |-> snapshot.val.records[i].record_id]
    IN Ret(storage_put(put2, RecordIndexKey, encode_record_index(index)), Ok(Unit))

import_keyvault(self, now_ms, session_id, blob) ==
  LET gate == require_step_up(self, now_ms, session_id) IN
  IF ~gate.res.ok THEN gate
  ELSE LET value == decode_canonical_value(blob) IN
       IF ~value.ok THEN Ret(self, Err("InvalidCbor"))
       ELSE import_keyvault_decoded(self, KeyVaultSnapshotV1_from_cbor(value.val))

change_passphrase_with_header(self, now_ms, session_id, new_passphrase_utf8, header) ==
  IF ~header.ok THEN Ret(self, header)
  ELSE
    LET gate == require_step_up(self, now_ms, session_id) IN
    IF ~gate.res.ok THEN gate
    ELSE
      LET vault_key == self.sessions[session_id].vault_key
          n == self.entropy.wrap + 1
          new_kdf == KdfParams(<<"salt", n>>)
          kek == derive_kek(new_passphrase_utf8, new_kdf)
          aad == aad_keyvault_keywrap_v1(header.val.vault_id, header.val.user_id, new_kdf,
                                         header.val.aead)
          nonce == <<"wrap-nonce", n>>
          ct == aead_encrypt(kek.val, aad, vault_key, nonce)
          rewrapped == [header.val EXCEPT
                          !.kdf = new_kdf,
                          !.vault_key_wrap = [aead |-> "aead-1", nonce |-> nonce, ct |-> ct]]
      IN
      IF ~kek.ok THEN Ret(self, Err("CryptoError"))
      ELSE Ret(storage_put([self EXCEPT !.entropy.wrap = n], HeaderKey,
                           encode_keyvault_header_v1(rewrapped)),
               Ok(Unit))

change_passphrase(self, now_ms, session_id, new_passphrase_utf8) ==
  change_passphrase_with_header(self, now_ms, session_id, new_passphrase_utf8,
                                load_header(self))

get_webauthn_prf_unlock_info_with_header(self, header) ==
  IF ~header.ok THEN Ret(self, header)
  ELSE LET prf == load_webauthn_prf_unlock(self) IN
       Ret(self, Ok([enabled |-> prf.ok,
                     credential_id |-> IF prf.ok THEN Some(prf.val.credential_id) ELSE None,
                     prf_salt |-> sha256(<<"mo-webauthn-prf|salt-v1", header.val.vault_id,
                                           header.val.user_id>>),
                     aead |-> header.val.aead]))

get_webauthn_prf_unlock_info(self) ==
  get_webauthn_prf_unlock_info_with_header(self, load_header(self))

enable_webauthn_prf_unlock_with_header(self, now_ms, session_id, credential_id, prf_output, header) ==
  IF ~header.ok THEN Ret(self, header)
  ELSE
    LET gate == require_step_up(self, now_ms, session_id) IN
    IF ~gate.res.ok THEN gate
    ELSE
      LET vault_key == self.sessions[session_id].vault_key
          n == self.entropy.wrap + 1
          prf_key == hkdf_sha256(prf_output, "mo-webauthn-prf|unwrap-k-vault|v1")
          aad == aad_webauthn_prf_wrap_v1(header.val.vault_id, header.val.user_id,
                                          header.val.kdf, header.val.aead)
          nonce == <<"prf-nonce", n>>
          ct == aead_encrypt(prf_key, aad, vault_key, nonce)
          info == [credential_id |-> credential_id, nonce |-> nonce, ct |-> ct]
      IN
      Ret(storage_put([self EXCEPT !.entropy.wrap = n], WebauthnPrfKey,
                      WebAuthnPrfUnlockV1_encode(info)),
          Ok(Unit))

enable_webauthn_prf_unlock(self, now_ms, session_id, credential_id, prf_output) ==
  enable_webauthn_prf_unlock_with_header(self, now_ms, session_id, credential_id, prf_output,
                                         load_header(self))

disable_webauthn_prf_unlock(self, now_ms, session_id) ==
  LET gate == require_step_up(self, now_ms, session_id) IN
  IF ~gate.res.ok THEN gate
  ELSE Ret(storage_put(self, WebauthnPrfKey, EmptyBytes), Ok(Unit))

extract_signer_keys(scope_state) ==
  IF scope_state.sig_suite # "hybrid-sig-1" THEN Err("InvalidFormat")
  ELSE IF IsMap(scope_state.payload) /\ HasKeys(scope_state.payload, {1, 2}, "bytes")
       THEN Ok(SignerKeys(Field(scope_state.payload, 1), Field(scope_state.payload, 2)))
       ELSE Err("InvalidFormat")

KeyServiceStateDefault(header) ==
  [keyvault_header |-> header, keyvault_state |-> KeyVaultStateDefault,
   keyvault_materialized |-> KeyVaultMaterializedDefault,
   signer_roster |-> SignerRosterDefault]

\* an ingest_scope_state that records the signer before it verifies the signature
ingest_scope_state_decoded_roster_first(self, decoded, expected_owner_signer_fingerprint, header) ==
  IF ~decoded.ok THEN Ret(self, Err("InvalidFormat"))
  ELSE
    LET scope_state == decoded.val
        signer_keys == extract_signer_keys(scope_state)
        current == IF IsSome(self.state) THEN Unwrap(self.state)
                   ELSE KeyServiceStateDefault(header.val)
        roster == insert_scope_state_ref(
                    upsert_signer(current.signer_roster, scope_state.scope_id,
                                  scope_state.signer_device_id, signer_keys.val),
                    scope_state.scope_id, hex_encode(scope_state_ref_bytes(scope_state)))
        recorded == [self EXCEPT !.state = Some([current EXCEPT !.signer_roster = roster])]
    IN
    IF ~signer_keys.ok THEN Ret(self, signer_keys)
    ELSE IF ~header.ok THEN Ret(self, header)
    ELSE IF ~hybrid_verify(scope_state_to_be_signed_bytes(scope_state),
                           scope_state.signature, signer_keys.val)
         THEN Ret(recorded, Err("CryptoError"))
    ELSE Ret(recorded, Ok([scope_id |-> scope_state.scope_id,
                           scope_state_ref |-> hex_encode(scope_state_ref_bytes(scope_state))]))

\* ingest_scope_state once the scope state is parsed and the header read
ingest_scope_state_decoded(self, decoded, expected_owner_signer_fingerprint, header) ==
  IF ~decoded.ok THEN Ret(self, Err("InvalidFormat"))
  ELSE
    LET scope_state == decoded.val
        to_verify == scope_state_to_be_signed_bytes(scope_state)
        signer_keys == extract_signer_keys(scope_state)
        scope_state_ref == hex_encode(scope_state_ref_bytes(scope_state))
        current == IF IsSome(self.state) THEN Unwrap(self.state)
                   ELSE KeyServiceStateDefault(header.val)
        roster == insert_scope_state_ref(
                    upsert_signer(current.signer_roster, scope_state.scope_id,
                                  scope_state.signer_device_id, signer_keys.val),
                    scope_state.scope_id, scope_state_ref)
    IN
    IF ~signer_keys.ok THEN Ret(self, signer_keys)
    ELSE IF IsSome(expected_owner_signer_fingerprint)
              /\ fingerprint_signer(signer_keys.val) # Unwrap(expected_owner_signer_fingerprint)
         THEN Ret(self, Err("FingerprintMismatch"))
    ELSE IF ~hybrid_verify(to_verify, scope_state.signature, signer_keys.val)
         THEN Ret(self, Err("CryptoError"))
    ELSE IF ~header.ok THEN Ret(self, header)
    ELSE Ret([self EXCEPT !.state = Some([current EXCEPT !.signer_roster = roster])],
             Ok([scope_id |-> scope_state.scope_id, scope_state_ref |-> scope_state_ref]))

ingest_scope_state(self, now_ms, session_id, scope_state_cbor, expected_owner_signer_fingerprint) ==
  LET valid == ensure_session_valid(self, now_ms, session_id) IN
  IF ~valid.res.ok THEN valid
  ELSE LET value == decode_canonical_value(scope_state_cbor) IN
       IF ~value.ok THEN Ret(self, Err("InvalidCbor"))
       ELSE ingest_scope_state_decoded(self, ScopeStateV1_from_cbor(value.val),
                                       expected_owner_signer_fingerprint, load_header(self))

\* persist_record_container: the header put, with the header cached in memory
persist_record_container_header(self, header) ==
  LET stored == storage_put(self, HeaderKey, encode_keyvault_header_v1(header)) IN
  IF IsSome(stored.state)
  THEN [stored EXCEPT !.state = Some([Unwrap(@) EXCEPT !.keyvault_header = header])]
  ELSE stored

\* persist_record_container: the record index read and rewritten
persist_record_container_index(self, container, index) ==
  IF ~index.ok THEN Ret(self, index)
  ELSE Ret(storage_put(self, RecordIndexKey,
                       encode_record_index(
                         IF \E i \in DOMAIN index.val : index.val[i] = container.record_id
                         THEN index.val ELSE Append(index.val, container.record_id))),
           Ok(Unit))

persist_record_container_indexed(self, container) ==
  persist_record_container_index(self, container, load_record_index(self))

\* persist_record_container once the record is put and the header read
persist_record_container_listed(self, container, header) ==
  IF ~header.ok THEN Ret(self, header)
  ELSE IF \E i \in DOMAIN header.val.records :
            header.val.records[i].record_id = container.record_id
       THEN persist_record_container_indexed(self, container)
       ELSE persist_record_container_indexed(
              persist_record_container_header(
                self, [header.val EXCEPT !.records = Append(@, container)]),
              container)

persist_record_container_stored(self, container) ==
  persist_record_container_listed(self, container, load_header(self))

persist_record_container(self, container) ==
  persist_record_container_stored(
    storage_put(self, RecordKey(container.record_id),
                encode_keyvault_record_container_v1(container)),
    container)

\* the shared body of persist_scope_key, persist_resource_key and each half of
\* init_identity: append the record to the in-memory ledger, then persist it
append_and_persist(self, header, vault_key, record) ==
  IF ~IsSome(self.state) THEN Ret(self, Err("CryptoError"))
  ELSE
    LET st == Unwrap(self.state)
        n == self.entropy.rec + 1
        appended == append_record(st.keyvault_state, header, vault_key, record,
                                  st.keyvault_state.head_seq + 1, <<"rec-nonce", n>>)
        mutated == [self EXCEPT
                      !.entropy.rec = n,
                      !.state = Some([st EXCEPT !.keyvault_state = appended.val.state])]
    IN
    IF ~appended.ok THEN Ret(self, Err("InvalidFormat"))
    ELSE persist_record_container(mutated, appended.val.container)


\* persist_scope_key once the record is appended and persisted
persist_scope_key_persisted(persisted, scope_id, scope_epoch, scope_key) ==
  IF ~persisted.res.ok THEN persisted
  ELSE Ret([persisted.self EXCEPT !.state = Some([Unwrap(@) EXCEPT
              !.keyvault_materialized.scope_keys =
                 MapPut(@, <<scope_id, scope_epoch>>, scope_key)])],
           Ok(Unit))

persist_scope_key_with_header(self, now_ms, session_id, scope_id, scope_epoch, scope_key, header) ==
  IF ~header.ok THEN Ret(self, header)
  ELSE
    LET valid == ensure_session_valid(self, now_ms, session_id) IN
    IF ~valid.res.ok THEN valid
    ELSE persist_scope_key_persisted(
           append_and_persist(self, header.val, self.sessions[session_id].vault_key,
                              make_store_scope_key_record(<<"rec", self.entropy.rec + 1>>,
                                                          scope_id, scope_epoch, scope_key)),
           scope_id, scope_epoch, scope_key)

persist_scope_key(self, now_ms, session_id, scope_id, scope_epoch, scope_key) ==
  persist_scope_key_with_header(self, now_ms, session_id, scope_id, scope_epoch, scope_key,
                                load_header(self))

\* persist_resource_key once the record is appended and persisted
persist_resource_key_persisted(persisted, resource_id, resource_key_id, resource_key) ==
  IF ~persisted.res.ok THEN persisted
  ELSE Ret([persisted.self EXCEPT !.state = Some([Unwrap(@) EXCEPT
              !.keyvault_materialized.resource_keys =
                 MapPut(@, <<resource_id, resource_key_id>>, resource_key)])],
           Ok(Unit))

persist_resource_key_with_header(self, now_ms, session_id, resource_id, resource_key_id, resource_key, header) ==
  IF ~header.ok THEN Ret(self, header)
  ELSE
    LET valid == ensure_session_valid(self, now_ms, session_id) IN
    IF ~valid.res.ok THEN valid
    ELSE persist_resource_key_persisted(
           append_and_persist(self, header.val, self.sessions[session_id].vault_key,
                              make_store_resource_key_record(
                                <<"rec", self.entropy.rec + 1>>, resource_id,
                                resource_key_id, resource_key)),
           resource_id, resource_key_id, resource_key)

persist_resource_key(self, now_ms, session_id, resource_id, resource_key_id, resource_key) ==
  persist_resource_key_with_header(self, now_ms, session_id, resource_id, resource_key_id,
                                   resource_key, load_header(self))

load_user_keypair(self) ==
  IF ~IsSome(self.state) THEN Err("CryptoError")
  ELSE IF ~IsSome(Unwrap(self.state).keyvault_materialized.user_key) THEN Err("CryptoError")
  ELSE Ok(Unwrap(Unwrap(self.state).keyvault_materialized.user_key))

\* ingest_key_envelope once the scope key is persisted
ingest_key_envelope_persisted(persisted, e) ==
  IF ~persisted.res.ok THEN persisted
  ELSE Ret(persisted.self, Ok([scope_id |-> e.scope_id, scope_epoch |-> e.scope_epoch]))

\* ingest_key_envelope once the envelope is parsed
\* an ingest that looks up the scope state reference before the signer
ingest_key_envelope_decoded_ref_first(self, now_ms, session_id, envelope) ==
  IF ~envelope.ok THEN Ret(self, Err("InvalidFormat"))
  ELSE IF ~IsSome(self.state) THEN Ret(self, Err("UnknownScope"))
  ELSE
    LET e == envelope.val
        roster == Unwrap(self.state).signer_roster
        signer == get_signer(roster, e.scope_id, e.signer_device_id)
        to_verify == key_envelope_to_be_signed_bytes(e)
        recipient == load_user_keypair(self)
        wrap_key == derive_hybrid_kem_wrap_key(e.enc, recipient.val, e.kem)
        aad == aad_key_envelope_wrap_v1(e.scope_id, e.scope_epoch, e.recipient_user_id,
                                        e.scope_state_ref, e.kem, e.aead,
                                        e.recipient_uk_pub_fingerprint)
        scope_key == aead_decrypt(wrap_key.val, aad, e.nonce, e.wrapped_scope_key)
    IN
    IF ~has_scope_state_ref(roster, e.scope_id, hex_encode(e.scope_state_ref))
    THEN Ret(self, Err("InvalidFormat"))
    ELSE IF ~IsSome(signer) THEN Ret(self, Err("UntrustedSigner"))
    ELSE IF ~hybrid_verify(to_verify, e.signature, Unwrap(signer))
         THEN Ret(self, Err("CryptoError"))
    ELSE IF ~recipient.ok THEN Ret(self, recipient)
    ELSE IF IsSome(e.recipient_uk_pub_fingerprint)
              /\ fingerprint_bytes(recipient.val.public_bytes)
                   # Unwrap(e.recipient_uk_pub_fingerprint)
         THEN Ret(self, Err("FingerprintMismatch"))
    ELSE IF ~wrap_key.ok THEN Ret(self, Err("CryptoError"))
    ELSE IF ~scope_key.ok THEN Ret(self, Err("CryptoError"))
    ELSE ingest_key_envelope_persisted(
           persist_scope_key(self, now_ms, session_id, e.scope_id, e.scope_epoch,
                             scope_key.val),
           e)

ingest_key_envelope_decoded(self, now_ms, session_id, envelope) ==
  IF ~envelope.ok THEN Ret(self, Err("InvalidFormat"))
  ELSE IF ~IsSome(self.state) THEN Ret(self, Err("UnknownScope"))
  ELSE
    LET e == envelope.val
        roster == Unwrap(self.state).signer_roster
        signer == get_signer(roster, e.scope_id, e.signer_device_id)
        to_verify == key_envelope_to_be_signed_bytes(e)
        recipient == load_user_keypair(self)
        wrap_key == derive_hybrid_kem_wrap_key(e.enc, recipient.val, e.kem)
        aad == aad_key_envelope_wrap_v1(e.scope_id, e.scope_epoch, e.recipient_user_id,
                                        e.scope_state_ref, e.kem, e.aead,
                                        e.recipient_uk_pub_fingerprint)
        scope_key == aead_decrypt(wrap_key.val, aad, e.nonce, e.wrapped_scope_key)
    IN
    IF ~IsSome(signer) THEN Ret(self, Err("UntrustedSigner"))
    ELSE IF ~has_scope_state_ref(roster, e.scope_id, hex_encode(e.scope_state_ref))
         THEN Ret(self, Err("InvalidFormat"))
    ELSE IF ~hybrid_verify(to_verify, e.signature, Unwrap(signer))
         THEN Ret(self, Err("CryptoError"))
    ELSE IF ~recipient.ok THEN Ret(self, recipient)
    ELSE IF IsSome(e.recipient_uk_pub_fingerprint)
              /\ fingerprint_bytes(recipient.val.public_bytes)
                   # Unwrap(e.recipient_uk_pub_fingerprint)
         THEN Ret(self, Err("FingerprintMismatch"))
    ELSE IF ~wrap_key.ok THEN Ret(self, Err("CryptoError"))
    ELSE IF ~scope_key.ok THEN Ret(self, Err("CryptoError"))
    ELSE ingest_key_envelope_persisted(
           persist_scope_key(self, now_ms, session_id, e.scope_id, e.scope_epoch,
                             scope_key.val),
           e)

ingest_key_envelope(self, now_ms, session_id, key_envelope_cbor) ==
  LET valid == ensure_session_valid(self, now_ms, session_id) IN
  IF ~valid.res.ok THEN valid
  ELSE LET value == decode_canonical_value(key_envelope_cbor) IN
       IF ~value.ok THEN Ret(self, Err("InvalidCbor"))
       ELSE ingest_key_envelope_decoded(self, now_ms, session_id,
                                        KeyEnvelopeV1_from_cbor(value.val))


\* Session::insert_handle on a session of the service, with a fresh handle id
session_insert_handle(self, session_id, entry) ==
  LET id == self.entropy.hnd + 1 IN
  Ret([self EXCEPT !.sessions[session_id] = insert_handle(@, entry, id),
                   !.entropy.hnd = id],
      Ok(id))

open_scope(self, now_ms, session_id, scope_id, scope_epoch) ==
  IF ~IsSome(self.state) THEN Ret(self, Err("ScopeKeyMissing"))
  ELSE IF ~MapHas(Unwrap(self.state).keyvault_materialized.scope_keys, <<scope_id, scope_epoch>>)
       THEN Ret(self, Err("ScopeKeyMissing"))
  ELSE
    LET key == Unwrap(self.state).keyvault_materialized.scope_keys[<<scope_id, scope_epoch>>]
        valid == ensure_session_valid(self, now_ms, session_id)
    IN
    IF ~valid.res.ok THEN valid
    ELSE LET inserted == session_insert_handle(self, session_id,
                           [type |-> "ScopeKey", scope_id |-> scope_id,
                            scope_epoch |-> scope_epoch, key |-> key]) IN
         Ret(inserted.self, Ok([scope_key_handle |-> inserted.res.val]))

\* Session::get_handle on a session of the service: the entry, and the touch
session_get_handle(self, session_id, handle) ==
  LET got == get_handle(self.sessions[session_id], handle) IN
  [self |-> [self EXCEPT !.sessions[session_id] = got.session], entry |-> got.entry]

\* open_resource once the resource key is persisted
open_resource_persisted(persisted, now_ms, session_id, g, resource_key) ==
  IF ~persisted.res.ok THEN persisted
  ELSE LET again == ensure_session_valid(persisted.self, now_ms, session_id) IN
       IF ~again.res.ok THEN again
       ELSE LET inserted == session_insert_handle(persisted.self, session_id,
                              [type |-> "ResourceKey", resource_id |-> g.resource_id,
                               resource_key_id |-> g.resource_key_id,
                               key |-> resource_key]) IN
            Ret(inserted.self, Ok([resource_key_handle |-> inserted.res.val]))

\* open_resource once the scope key is taken from its handle and the grant parsed
open_resource_decoded(self, now_ms, session_id, scope_key, grant) ==
  IF ~grant.ok THEN Ret(self, Err("InvalidFormat"))
  ELSE IF ~IsSome(self.state) THEN Ret(self, Err("UnknownScope"))
  ELSE
    LET g == grant.val
        roster == Unwrap(self.state).signer_roster
        signer == get_signer(roster, g.scope_id, g.signer_device_id)
        to_verify == resource_grant_to_be_signed_bytes(g)
        aad == aad_resource_grant_wrap_v1(g.scope_id, g.resource_id, g.scope_epoch,
                                          g.resource_key_id, g.aead)
        resource_key == aead_decrypt(scope_key, aad, g.nonce, g.wrapped_key)
    IN
    IF ~IsSome(signer) THEN Ret(self, Err("UntrustedSigner"))
    ELSE IF ~has_scope_state_ref(roster, g.scope_id, hex_encode(g.scope_state_ref))
         THEN Ret(self, Err("InvalidFormat"))
    ELSE IF ~hybrid_verify(to_verify, g.signature, Unwrap(signer))
         THEN Ret(self, Err("CryptoError"))
    ELSE IF ~resource_key.ok THEN Ret(self, Err("CryptoError"))
    ELSE open_resource_persisted(
           persist_resource_key(self, now_ms, session_id, g.resource_id, g.resource_key_id,
                                resource_key.val),
           now_ms, session_id, g, resource_key.val)

open_resource(self, now_ms, session_id, scope_key_handle, grant_cbor) ==
  LET valid == ensure_session_valid(self, now_ms, session_id) IN
  IF ~valid.res.ok THEN valid
  ELSE
    LET got == session_get_handle(self, session_id, scope_key_handle)
        value == decode_canonical_value(grant_cbor)
    IN
    IF ~IsSome(got.entry) THEN Ret(got.self, Err("UnknownHandle"))
    ELSE IF Unwrap(got.entry).type # "ScopeKey" THEN Ret(got.self, Err("UnknownHandle"))
    ELSE IF ~value.ok THEN Ret(got.self, Err("InvalidCbor"))
    ELSE open_resource_decoded(got.self, now_ms, session_id, Unwrap(got.entry).key,
                               ResourceGrantV1_from_cbor(value.val))

close_handle(self, now_ms, session_id, key_handle) ==
  LET valid == ensure_session_valid(self, now_ms, session_id) IN
  IF ~valid.res.ok THEN valid
  ELSE Ret([self EXCEPT !.sessions[session_id] = remove_handle(@, key_handle)], Ok(Unit))

\* a lookup that hands out the key of any entry, whatever its kind
resource_key_of_any_kind(self, session_id, resource_key_handle) ==
  LET got == session_get_handle(self, session_id, resource_key_handle) IN
  IF IsSome(got.entry)
  THEN Ret(got.self, Ok(Unwrap(got.entry).key))
  ELSE Ret(got.self, Err("UnknownHandle"))

\* the resource key behind a handle, for encrypt and decrypt
resource_key_of(self, session_id, resource_key_handle) ==
  LET got == session_get_handle(self, session_id, resource_key_handle) IN
  IF IsSome(got.entry) /\ Unwrap(got.entry).type = "ResourceKey"
  THEN Ret(got.self, Ok(Unwrap(got.entry).key))
  ELSE Ret(got.self, Err("UnknownHandle"))

encrypt(self, now_ms, session_id, resource_key_handle, aad, plaintext, nonce) ==
  LET valid == ensure_session_valid(self, now_ms, session_id) IN
  IF ~valid.res.ok THEN valid
  ELSE LET key == resource_key_of(self, session_id, resource_key_handle) IN
       IF ~key.res.ok THEN key
       ELSE Ret(key.self,
                Ok([ciphertext |-> <<nonce, aead_encrypt(key.res.val, aad, plaintext, nonce)>>]))

\* a decrypt that opens the ciphertext without binding the caller's aad
decrypt_aad_unbound(self, now_ms, session_id, resource_key_handle, aad, ciphertext) ==
  LET valid == ensure_session_valid(self, now_ms, session_id) IN
  IF ~valid.res.ok THEN valid
  ELSE LET key == resource_key_of(self, session_id, resource_key_handle) IN
       IF ~key.res.ok THEN key
       ELSE IF Len(ciphertext) < 2 THEN Ret(key.self, Err("CryptoError"))
       ELSE LET pt == aead_decrypt(key.res.val, ciphertext[2].aad, ciphertext[1],
                                   ciphertext[2]) IN
            IF pt.ok THEN Ret(key.self, Ok([plaintext |-> pt.val]))
            ELSE Ret(key.self, Err("CryptoError"))

decrypt(self, now_ms, session_id, resource_key_handle, aad, ciphertext) ==
  LET valid == ensure_session_valid(self, now_ms, session_id) IN
  IF ~valid.res.ok THEN valid
  ELSE LET key == resource_key_of(self, session_id, resource_key_handle) IN
       IF ~key.res.ok THEN key
       ELSE IF Len(ciphertext) < 2 THEN Ret(key.self, Err("CryptoError"))
       ELSE LET pt == aead_decrypt(key.res.val, aad, ciphertext[1], ciphertext[2]) IN
            IF pt.ok THEN Ret(key.self, Ok([plaintext |-> pt.val]))
            ELSE Ret(key.self, Err("CryptoError"))

\* device_signing_keys.values().next(): the map's iteration order is not
\* specified, so the caller of the model picks which device's key comes first
sign(self, now_ms, session_id, data, first_device) ==
  LET valid == ensure_session_valid(self, now_ms, session_id) IN
  IF ~valid.res.ok THEN valid
  ELSE IF ~IsSome(self.state) THEN Ret(self, Err("CryptoError"))
  ELSE LET keys == Unwrap(self.state).keyvault_materialized.device_signing_keys IN
       IF DOMAIN keys = {} THEN Ret(self, Err("CryptoError"))
       ELSE LET device == IF first_device \in DOMAIN keys THEN first_device
                          ELSE CHOOSE d \in DOMAIN keys : TRUE IN
            Ret(self, Ok([signature |-> hybrid_sign(data, keys[device]),
                          ciphersuite |-> "hybrid-sig-1"]))

verify(self, scope_id, signer_device_id, data, signature, ciphersuite) ==
  IF ciphersuite # "hybrid-sig-1" THEN Ret(self, Err("InvalidFormat"))
  ELSE IF ~IsSome(self.state) THEN Ret(self, Err("UnknownScope"))
  ELSE LET signer == get_signer(Unwrap(self.state).signer_roster, scope_id, signer_device_id)
       IN IF ~IsSome(signer) THEN Ret(self, Err("UntrustedSigner"))
          ELSE Ret(self, Ok([ok |-> hybrid_verify(data, signature, Unwrap(signer))]))

\* init_identity once the device signing key record is persisted
init_identity_device(persisted, device_id, device_signer) ==
  IF ~persisted.res.ok THEN persisted
  ELSE Ret([persisted.self EXCEPT !.state = Some([Unwrap(@) EXCEPT
              !.keyvault_materialized.device_signing_keys =
                 MapPut(@, device_id, device_signer)])],
           Ok(Unit))

\* init_identity once the user key record is persisted
init_identity_user(persisted, header, vault_key, device_id, n, uk) ==
  IF ~persisted.res.ok THEN persisted
  ELSE init_identity_device(
         append_and_persist([persisted.self EXCEPT
                               !.entropy.key = n,
                               !.state = Some([Unwrap(@) EXCEPT
                                  !.keyvault_materialized.user_key = Some(uk.recipient)])],
                            header, vault_key,
                            make_store_device_signing_key_record(
                              <<"rec", persisted.self.entropy.rec + 1>>, device_id,
                              HybridSignatureKeypair(n))),
         device_id, HybridSignatureKeypair(n))

init_identity_with_header(self, now_ms, session_id, device_id, header) ==
  IF ~header.ok THEN Ret(self, header)
  ELSE
    LET valid == ensure_session_valid(self, now_ms, session_id) IN
    IF ~valid.res.ok THEN valid
    ELSE
      LET vault_key == self.sessions[session_id].vault_key
          n == self.entropy.key + 1
          uk == generate_user_keypair(n)
      IN
      init_identity_user(
        append_and_persist(self, header.val, vault_key,
                           make_store_user_key_record(<<"rec", self.entropy.rec + 1>>,
                                                      uk.private_bytes,
                                                      uk.recipient.public_bytes)),
        header.val, vault_key, device_id, n, uk)

init_identity(self, now_ms, session_id, device_id) ==
  init_identity_with_header(self, now_ms, session_id, device_id, load_header(self))


(***************************************************************************)
(* The callers' inputs.  The scope owner signs with key pair OwnerKey, an  *)
(* outsider with key pair OutsiderKey; envelopes are sealed for the user   *)
(* key the vault currently holds.                                          *)
(***************************************************************************)
Passphrases == {"pass-a", "pass-b"}
SampleUserId == "user-1"
SampleKdf == KdfParams(<<"salt", 0>>)
SampleDevice == "device-1"
SampleScope == "scope-1"
SampleResource == "res-1"
SampleResourceKeyId == "rk-1"
SampleScopeKey == <<"sk", 1>>
SampleResourceKey == <<"rk", 1>>
SamplePrf == <<"prf", 1>>
SampleCredential == <<"cred", 1>>
SampleData == <<"data", 1>>
SampleAad == <<"aad", 1>>
Garbage == <<"raw">>
OwnerKey == HybridSignatureKeypair(101)
OutsiderKey == HybridSignatureKeypair(102)

SignerPayload(keypair) ==
  cbor_map([k \in 1..2 |-> IF k = 1 THEN cbor_bytes(keypair.ed25519_pub)
                           ELSE cbor_bytes(keypair.mldsa_pub)])

\* a scope state naming payload_keys as the signer's keys, signed with signing_keys
MakeScopeState(device_id, payload_keys, signing_keys) ==
  LET unsigned == [v |-> 1, scope_id |-> SampleScope, scope_state_seq |-> 1,
                   prev_hash |-> ZeroHash, scope_epoch |-> 1, kind |-> 1,
                   payload |-> SignerPayload(payload_keys), signer_device_id |-> device_id,
                   sig_suite |-> "hybrid-sig-1", signature |-> <<>>]
  IN [unsigned EXCEPT !.signature =
        hybrid_sign(scope_state_to_be_signed_bytes(unsigned), signing_keys)]

OwnerScopeState == MakeScopeState("device-owner", OwnerKey, OwnerKey)
OutsiderSameDevice == MakeScopeState("device-owner", OutsiderKey, OutsiderKey)
OutsiderNewDevice == MakeScopeState("device-outsider", OutsiderKey, OutsiderKey)
ForgedScopeState == MakeScopeState("device-owner", OwnerKey, OutsiderKey)

SampleScopeStates ==
  { encode_scope_state_v1(OwnerScopeState), encode_scope_state_v1(OutsiderSameDevice),
    encode_scope_state_v1(OutsiderNewDevice), encode_scope_state_v1(ForgedScopeState),
    encode_canonical_value(scope_state_value(OwnerScopeState, 0..8)),
    Garbage }

SampleFingerprints == { None, Some(fingerprint_signer(SignerKeys(OwnerKey.ed25519_pub, OwnerKey.mldsa_pub))) }

\* a key envelope for the holder of recipient_public_bytes
MakeKeyEnvelope(device_id, signing_keys, scope_state, recipient_public_bytes, sealed_for, fp) ==
  LET kem == hybrid_kem_encapsulate(sealed_for, 1)
      ref == scope_state_ref_bytes(scope_state)
      fingerprint == IF fp THEN Some(fingerprint_bytes(recipient_public_bytes)) ELSE None
      aad == aad_key_envelope_wrap_v1(SampleScope, 1, SampleUserId, ref, "hybrid-kem-1",
                                      "aead-1", fingerprint)
      unsigned == [v |-> 1, envelope_id |-> "env-1", scope_id |-> SampleScope,
                   scope_epoch |-> 1, recipient_user_id |-> SampleUserId,
                   scope_state_ref |-> ref, kem |-> "hybrid-kem-1", aead |-> "aead-1",
                   enc |-> kem.enc, nonce |-> <<"env-nonce", 1>>,
                   wrapped_scope_key |-> aead_encrypt(kem.wrap_key, aad, SampleScopeKey,
                                                      <<"env-nonce", 1>>),
                   signer_device_id |-> device_id, sig_suite |-> "hybrid-sig-1",
                   signature |-> <<>>, recipient_uk_pub_fingerprint |-> fingerprint]
  IN [unsigned EXCEPT !.signature =
        hybrid_sign(key_envelope_to_be_signed_bytes(unsigned), signing_keys)]

CurrentUserPublic(self) ==
  IF IsSome(self.state) /\ IsSome(Unwrap(self.state).keyvault_materialized.user_key)
  THEN Unwrap(Unwrap(self.state).keyvault_materialized.user_key).public_bytes
  ELSE <<"ukpub", 0>>

SampleKeyEnvelopes(self) ==
  LET pub == CurrentUserPublic(self) IN
  { encode_key_envelope_v1(
      MakeKeyEnvelope("device-owner", OwnerKey, OwnerScopeState, pub, pub, FALSE)),
    encode_key_envelope_v1(
      MakeKeyEnvelope("device-owner", OwnerKey, OwnerScopeState, pub, pub, TRUE)),
    encode_key_envelope_v1(
      MakeKeyEnvelope("device-owner", OutsiderKey, OwnerScopeState, pub, pub, FALSE)),
    encode_key_envelope_v1(
      MakeKeyEnvelope("device-owner", OwnerKey, ForgedScopeState, pub, pub, FALSE)),
    encode_key_envelope_v1(
      MakeKeyEnvelope("device-outsider", OutsiderKey, OwnerScopeState, pub, pub, FALSE)),
    encode_key_envelope_v1(
      MakeKeyEnvelope("device-owner", OwnerKey, OwnerScopeState, pub, <<"ukpub", 0>>, FALSE)),
    encode_key_envelope_v1(
      MakeKeyEnvelope("device-owner", OwnerKey, OwnerScopeState, <<"ukpub", 0>>, pub, TRUE)),
    Garbage }

MakeResourceGrant(device_id, signing_keys, scope_state, scope_key) ==
  LET aad == aad_resource_grant_wrap_v1(SampleScope, SampleResource, 1, SampleResourceKeyId,
                                        "aead-1")
      unsigned == [v |-> 1, grant_id |-> "grant-1", scope_id |-> SampleScope,
                   grant_seq |-> 1, prev_hash |-> ZeroHash,
                   scope_state_ref |-> scope_state_ref_bytes(scope_state),
                   scope_epoch |-> 1, resource_id |-> SampleResource,
                   resource_key_id |-> SampleResourceKeyId, policy |-> None,
                   aead |-> "aead-1", nonce |-> <<"grant-nonce", 1>>,
                   wrapped_key |-> aead_encrypt(scope_key, aad, SampleResourceKey,
                                                <<"grant-nonce", 1>>),
                   signer_device_id |-> device_id, sig_suite |-> "hybrid-sig-1",
                   signature |-> <<>>]
  IN [unsigned EXCEPT !.signature =
        hybrid_sign(resource_grant_to_be_signed_bytes(unsigned), signing_keys)]

SampleResourceGrants ==
  { encode_resource_grant_v1(
      MakeResourceGrant("device-owner", OwnerKey, OwnerScopeState, SampleScopeKey)),
    encode_resource_grant_v1(
      MakeResourceGrant("device-owner", OutsiderKey, OwnerScopeState, SampleScopeKey)),
    encode_resource_grant_v1(
      MakeResourceGrant("device-owner", OwnerKey, ForgedScopeState, SampleScopeKey)),
    encode_resource_grant_v1(
      MakeResourceGrant("device-outsider", OutsiderKey, OwnerScopeState, SampleScopeKey)),
    encode_resource_grant_v1(
      MakeResourceGrant("device-owner", OwnerKey, OwnerScopeState, <<"sk", 2>>)),
    Garbage }

SampleCiphertexts ==
  { <<<<"enc-nonce", 1>>,
      aead_encrypt(SampleResourceKey, SampleAad, SampleData, <<"enc-nonce", 1>>)>>,
    <<<<"enc-nonce", 1>>,
      aead_encrypt(SampleResourceKey, <<"aad", 2>>, SampleData, <<"enc-nonce", 1>>)>>,
    <<"short">> }

OkValues(r) == IF r.ok THEN {r.val} ELSE {}

\* what an earlier export of the stored vault would have returned
CurrentSnapshot(self) ==
  export_keyvault_loaded(self, load_header(self), load_all_record_containers(self)).res

SampleBlobs(self) == OkValues(CurrentSnapshot(self)) \cup {Garbage}

SessionIds == 1..MaxSessions
KeyHandles == 1..MaxHandles

(***************************************************************************)
(* SpecSession: the handle table of one session under every sequence of    *)
(* insert_handle, get_handle, remove_handle and clear.  hist observes the  *)
(* calls: the handle ids in insertion order, ids in order of last touch,   *)
(* and whether only inserts were made so far.                              *)
(***************************************************************************)
HandleIds == 1..MaxHandleIds

SampleEntries ==
  { [type |-> "ScopeKey", scope_id |-> "scope-1", scope_epoch |-> 1, key |-> <<"sk", 1>>],
    [type |-> "ResourceKey", resource_id |-> "res-1", resource_key_id |-> "rk-1",
     key |-> <<"rk", 1>>] }

(***************************************************************************)
(* cbor.rs at the level of bytes.  A Value is a tagged tuple as above,     *)
(* except that a map is the Vec of its (key, value) pairs in the order     *)
(* they were given; a byte is a number in 0..255.  The service model above *)
(* works with values already in canonical form.                            *)
(***************************************************************************)
\* CborLimits::default, scaled down from 1 MiB, 64 levels and 4096 items
max_bytes == 12
max_depth == 2
max_items == 3

ValueInteger(n) == <<"uint", n>>
ValueBytes(bytes) == <<"bytes", bytes>>
ValueText(chars) == <<"text", chars>>
ValueArray(items) == <<"array", items>>
ValueMap(pairs) == <<"map", pairs>>

\* the major type and argument at the head of a data item
MajorOf(tag) ==
  CASE tag = "uint" -> 0 [] tag = "bytes" -> 2 [] tag = "text" -> 3
    [] tag = "array" -> 4 [] tag = "map" -> 5

\* ciborium's header: the shortest form of the argument
Header(major, n) ==
  IF n < 24 THEN <<major * 32 + n>>
  ELSE IF n < 256 THEN <<major * 32 + 24, n>>
  ELSE <<major * 32 + 25, n \div 256, n % 256>>

\* lexicographic order of byte strings, the order of BTreeMap<Vec<u8>, _>
RECURSIVE BytesLess(_, _)
BytesLess(a, b) ==
  IF b = <<>> THEN FALSE
  ELSE IF a = <<>> THEN TRUE
  ELSE IF a[1] # b[1] THEN a[1] < b[1]
  ELSE BytesLess(Tail(a), Tail(b))

\* BTreeMap::insert over a map that iterates from its greatest key down
BTreeInsert_descending(ordered, key_bytes, pair) ==
  IF \E i \in DOMAIN ordered : ordered[i].key_bytes = key_bytes
  THEN [i \in DOMAIN ordered |->
          IF ordered[i].key_bytes = key_bytes
          THEN [key_bytes |-> key_bytes, pair |-> pair] ELSE ordered[i]]
  ELSE LET before == SelectSeq(ordered, LAMBDA e : BytesLess(key_bytes, e.key_bytes))
           after == SelectSeq(ordered, LAMBDA e : BytesLess(e.key_bytes, key_bytes))
       IN before \o <<[key_bytes |-> key_bytes, pair |-> pair]>> \o after

\* BTreeMap::insert: an equal key has its entry replaced
BTreeInsert(ordered, key_bytes, pair) ==
  IF \E i \in DOMAIN ordered : ordered[i].key_bytes = key_bytes
  THEN [i \in DOMAIN ordered |->
          IF ordered[i].key_bytes = key_bytes
          THEN [key_bytes |-> key_bytes, pair |-> pair] ELSE ordered[i]]
  ELSE LET before == SelectSeq(ordered, LAMBDA e : BytesLess(e.key_bytes, key_bytes))
           after == SelectSeq(ordered, LAMBDA e : BytesLess(key_bytes, e.key_bytes))
       IN before \o <<[key_bytes |-> key_bytes, pair |-> pair]>> \o after

\* ciborium::ser::into_writer: the items in the order the Value holds them
RECURSIVE into_writer(_)
RECURSIVE WriteAll(_)
WriteAll(items) ==
  IF items = <<>> THEN <<>> ELSE into_writer(items[1]) \o WriteAll(Tail(items))
RECURSIVE WritePairs(_)
WritePairs(pairs) ==
  IF pairs = <<>> THEN <<>>
  ELSE into_writer(pairs[1][1]) \o into_writer(pairs[1][2]) \o WritePairs(Tail(pairs))
into_writer(value) ==
  CASE value[1] = "uint" -> Header(0, value[2])
    [] value[1] \in {"bytes", "text"} -> Header(MajorOf(value[1]), Len(value[2])) \o value[2]
    [] value[1] = "array" -> Header(4, Len(value[2])) \o WriteAll(value[2])
    [] value[1] = "map" -> Header(5, Len(value[2])) \o WritePairs(value[2])

\* canonicalize_value: maps re-ordered by the encoded bytes of their keys
RECURSIVE canonicalize_value(_)
RECURSIVE CanonicalizeAll(_)
CanonicalizeAll(items) ==
  IF items = <<>> THEN <<>>
  ELSE <<canonicalize_value(items[1])>> \o CanonicalizeAll(Tail(items))
RECURSIVE CanonicalizePairs(_, _)
CanonicalizePairs(pairs, ordered) ==
  IF pairs = <<>> THEN [i \in DOMAIN ordered |-> ordered[i].pair]
  ELSE LET key == canonicalize_value(pairs[1][1])
           key_bytes == into_writer(canonicalize_value(key))
           val == canonicalize_value(pairs[1][2])
       IN CanonicalizePairs(Tail(pairs), BTreeInsert(ordered, key_bytes, <<key, val>>))
canonicalize_value(value) ==
  CASE value[1] = "map" -> ValueMap(CanonicalizePairs(value[2], <<>>))
    [] value[1] = "array" -> ValueArray(CanonicalizeAll(value[2]))
    [] OTHER -> value

\* encode_canonical_value, to bytes
encode_canonical_value_bytes(value) == into_writer(canonicalize_value(value))

\* the argument of a header: its value and the bytes after it
ReadArgument(bytes) ==
  LET info == bytes[1] % 32 IN
  IF info < 24 THEN [ok |-> TRUE, n |-> info, rest |-> Tail(bytes)]
  ELSE IF info = 24 /\ Len(bytes) >= 2
       THEN [ok |-> TRUE, n |-> bytes[2], rest |-> SubSeq(bytes, 3, Len(bytes))]
  ELSE IF info = 25 /\ Len(bytes) >= 3
       THEN [ok |-> TRUE, n |-> bytes[2] * 256 + bytes[3], rest |-> SubSeq(bytes, 4, Len(bytes))]
  ELSE [ok |-> FALSE, n |-> 0, rest |-> <<>>]

ReadFailed == [ok |-> FALSE, val |-> <<>>, rest |-> <<>>]

\* ciborium::de::from_reader: one data item of major type 0, 2, 3, 4 or 5
\* with definite length; the bytes after it are left unread
RECURSIVE ReadItem(_)
RECURSIVE ReadItems(_, _, _)
ReadItems(bytes, count, items) ==
  IF count = 0 THEN [ok |-> TRUE, val |-> items, rest |-> bytes]
  ELSE LET item == ReadItem(bytes) IN
       IF ~item.ok THEN ReadFailed
       ELSE ReadItems(item.rest, count - 1, Append(items, item.val))
RECURSIVE PairUp(_)
PairUp(items) ==
  IF items = <<>> THEN <<>> ELSE <<<<items[1], items[2]>>>> \o PairUp(Tail(Tail(items)))
ReadItem(bytes) ==
  IF bytes = <<>> THEN ReadFailed
  ELSE
    LET major == bytes[1] \div 32
        arg == ReadArgument(bytes)
    IN
    IF ~arg.ok THEN ReadFailed
    ELSE CASE major = 0 -> [ok |-> TRUE, val |-> ValueInteger(arg.n), rest |-> arg.rest]
           [] major \in {2, 3} ->
                IF Len(arg.rest) < arg.n THEN ReadFailed
                ELSE [ok |-> TRUE,
                      val |-> <<IF major = 2 THEN "bytes" ELSE "text",
                                SubSeq(arg.rest, 1, arg.n)>>,
                      rest |-> SubSeq(arg.rest, arg.n + 1, Len(arg.rest))]
           [] major = 4 ->
                LET items == ReadItems(arg.rest, arg.n, <<>>) IN
                IF ~items.ok THEN ReadFailed
                ELSE [ok |-> TRUE, val |-> ValueArray(items.val), rest |-> items.rest]
           [] major = 5 ->
                LET items == ReadItems(arg.rest, 2 * arg.n, <<>>) IN
                IF ~items.ok THEN ReadFailed
                ELSE [ok |-> TRUE, val |-> ValueMap(PairUp(items.val)), rest |-> items.rest]
           [] OTHER -> ReadFailed

from_reader(bytes) == ReadItem(bytes)

\* check_limits
RECURSIVE check_limits(_, _)
check_limits(value, depth) ==
  IF depth > max_depth THEN Err("cbor depth exceeded")
  ELSE IF value[1] \in {"map", "array"} /\ Len(value[2]) > max_items
       THEN Err(IF value[1] = "map" THEN "cbor map too large" ELSE "cbor array too large")
  ELSE
    LET children == IF value[1] = "map"
                    THEN UNION { { value[2][i][1], value[2][i][2] } : i \in DOMAIN value[2] }
                    ELSE IF value[1] = "array" THEN { value[2][i] : i \in DOMAIN value[2] }
                    ELSE {}
        failed == { c \in children : ~check_limits(c, depth + 1).ok }
    IN IF failed = {} THEN Ok(Unit)
       ELSE check_limits(CHOOSE c \in failed : TRUE, depth + 1)

\* decode_canonical_value without the comparison of the re-encoded value
decode_canonical_value_bytes_unchecked(bytes) ==
  IF Len(bytes) > max_bytes THEN Err("cbor too large")
  ELSE LET read == from_reader(bytes) IN
       IF ~read.ok THEN Err("ciborium")
       ELSE IF ~check_limits(read.val, 0).ok THEN check_limits(read.val, 0)
       ELSE Ok(read.val)

\* decode_canonical_value, from bytes, with the message of its error
decode_canonical_value_bytes(bytes) ==
  IF Len(bytes) > max_bytes THEN Err("cbor too large")
  ELSE LET read == from_reader(bytes) IN
       IF ~read.ok THEN Err("ciborium")
       ELSE IF ~check_limits(read.val, 0).ok THEN check_limits(read.val, 0)
       ELSE IF encode_canonical_value_bytes(read.val) # bytes THEN Err("non-canonical cbor")
       ELSE Ok(read.val)

(***************************************************************************)
(* async_key_service.rs, key-service-wasm/src/lib.rs: the write-buffering  *)
(* shim between the synchronous core and an asynchronous backing store.    *)
(* Values are opaque; only the "keyvault" namespace is ever used.          *)
(***************************************************************************)
\* page size of the preload, scaled down from 512
DEFAULT_LIST_LIMIT == 2
\* record ids the shim's operations persist
ShimRecordIds == { <<"rec", 1>>, <<"rec", 2>> }

\* the storage keys in byte order of their strings:
\* "header" < "record:<id>" < "record_index" < "webauthn_prf"
StorageKeyOrder ==
  <<HeaderKey, RecordKey(<<"rec", 1>>), RecordKey(<<"rec", 2>>), RecordIndexKey, WebauthnPrfKey>>
StorageKeys == { StorageKeyOrder[i] : i \in 1..Len(StorageKeyOrder) }
KeyRank(key) == CHOOSE i \in 1..Len(StorageKeyOrder) : StorageKeyOrder[i] = key
\* String::new(), the cursor before the first key
EmptyCursor == <<>>
CursorRank(cursor) == IF cursor = EmptyCursor THEN 0 ELSE KeyRank(cursor)

StorageEntry(key, value) == [key |-> key, value |-> value]

\* AsyncStorageAdapter::list_since: the entries strictly after the cursor in key
\* order, at most limit of them, and the last returned key as next cursor
list_since(storage, cursor, limit) ==
  LET after == SelectSeq(StorageKeyOrder,
                         LAMBDA k : MapHas(storage, k) /\ KeyRank(k) > CursorRank(cursor))
      page == SubSeq(after, 1, IF Len(after) < limit THEN Len(after) ELSE limit)
  IN [batch |-> [i \in 1..Len(page) |-> StorageEntry(page[i], storage[page[i]])],
      next |-> IF page = <<>> THEN cursor ELSE page[Len(page)]]

\* calls of list_since after which the loop of load_namespace_entries is
\* reported as not terminating
LoadFuel(storage) == Cardinality(DOMAIN storage) + 1

\* a loader that asks for every page from the cursor it started with
RECURSIVE load_loop_cursor_kept(_, _, _, _)
load_loop_cursor_kept(storage, cursor, entries, calls) ==
  IF calls > LoadFuel(storage)
  THEN [done |-> FALSE, entries |-> entries, calls |-> calls]
  ELSE LET r == list_since(storage, cursor, DEFAULT_LIST_LIMIT) IN
       IF r.batch = <<>>
       THEN [done |-> TRUE, entries |-> entries, calls |-> calls + 1]
       ELSE load_loop_cursor_kept(storage, cursor, entries \o r.batch, calls + 1)

\* the loop of load_namespace_entries
RECURSIVE load_loop(_, _, _, _)
load_loop(storage, cursor, entries, calls) ==
  IF calls > LoadFuel(storage)
  THEN [done |-> FALSE, entries |-> entries, calls |-> calls]
  ELSE LET r == list_since(storage, cursor, DEFAULT_LIST_LIMIT) IN
       IF r.batch = <<>>
       THEN [done |-> TRUE, entries |-> entries, calls |-> calls + 1]
       ELSE load_loop(storage, r.next, entries \o r.batch, calls + 1)

load_namespace_entries(storage) == load_loop(storage, EmptyCursor, <<>>, 0)

\* BufferedStorage::new, WasmStorage::new: the pending writes are a Vec in the
\* core shim and a HashMap keyed on "namespace:key" in the wasm binding
BufferedStorageNew == [values |-> EmptyMap, pending |-> <<>>]
WasmStorageNew == [values |-> EmptyMap, pending |-> EmptyMap]

\* BufferedStorage::load_entries, WasmStorage::load_entries
RECURSIVE load_entries(_, _)
load_entries(state, entries) ==
  IF entries = <<>> THEN state
  ELSE load_entries([state EXCEPT !.values = MapPut(@, entries[1].key, entries[1].value)],
                    Tail(entries))

\* BufferedStorage::put
BufferedStorage_put(state, key, value) ==
  [state EXCEPT !.values = MapPut(@, key, value),
                !.pending = Append(@, StorageEntry(key, value))]

\* WasmStorage::put: a later write to the same key replaces the pending one
WasmStorage_put(state, key, value) ==
  [state EXCEPT !.values = MapPut(@, key, value),
                !.pending = MapPut(@, key, StorageEntry(key, value))]

\* BufferedStorage::drain_pending: std::mem::take
BufferedStorage_drain_pending(state) ==
  [state |-> [state EXCEPT !.pending = <<>>], entries |-> state.pending]

\* the orders in which a HashMap of these keys can be iterated
IterationOrders(map) ==
  { order \in [1..Cardinality(DOMAIN map) -> DOMAIN map] :
      \A i, j \in DOMAIN order : i # j => order[i] # order[j] }

\* WasmStorage::drain_pending: pending.values() in the map's iteration order
WasmStorage_drain_pending(state, order) ==
  [state |-> [state EXCEPT !.pending = EmptyMap],
   entries |-> [i \in DOMAIN order |-> state.pending[order[i]]]]

\* the puts of one core operation against the mirror of either binding
RECURSIVE core_puts(_, _, _)
core_puts(binding, state, entries) ==
  IF entries = <<>> THEN state
  ELSE core_puts(binding,
                 IF binding = "async"
                 THEN BufferedStorage_put(state, entries[1].key, entries[1].value)
                 ELSE WasmStorage_put(state, entries[1].key, entries[1].value),
                 Tail(entries))

\* the backing store after the puts of a flush
RECURSIVE backing_puts(_, _)
backing_puts(storage, entries) ==
  IF entries = <<>> THEN storage
  ELSE backing_puts(MapPut(storage, entries[1].key, entries[1].value), Tail(entries))

\* AsyncKeyService::flush_pending; put_fails is the position of the backing
\* store's failing put (0: none fails), after which the loop returns
flush_pending(self, put_fails) ==
  LET drained == BufferedStorage_drain_pending(self.state)
      failing == put_fails \in 1..Len(drained.entries)
      issued == IF failing THEN SubSeq(drained.entries, 1, put_fails - 1)
                ELSE drained.entries
  IN [self |-> [self EXCEPT !.state = drained.state,
                            !.storage = backing_puts(@, issued)],
      res |-> IF failing THEN Err("StorageError") ELSE Ok(Unit),
      issued |-> issued]

\* AsyncKeyService::new
AsyncKeyServiceNew(storage) ==
  [binding |-> "async", storage |-> storage,
   state |-> load_entries(BufferedStorageNew, load_namespace_entries(storage).entries)]

\* KeyServiceWasm with loadStorage(entries) called on the host's entries
KeyServiceWasmNew(storage) ==
  [binding |-> "wasm", storage |-> storage,
   state |-> load_entries(WasmStorageNew,
                          list_since(storage, EmptyCursor, Len(StorageKeyOrder)).batch)]

\* a shim at rest with what has been observed of it: the puts the core made
\* since the previous drain, the entries the last drain took and the puts issued
\* from them, the keys written so far, and whether a backing put has failed
ShimStart(service) ==
  [service |-> service, since |-> <<>>, drained |-> <<>>, issued |-> <<>>,
   op |-> "new", res |-> Ok(Unit), written |-> {}, put_failed |-> FALSE, writes |-> 0]

ShimInitIdle == shim = ShimStart(AsyncKeyServiceNew(EmptyMap))

\* the codec state before anything was drawn
CodecStart(kind, input) == [kind |-> kind, input |-> input, op |-> "new", out |-> <<>>]

CodecInitIdle == codec = CodecStart("value", <<"uint", 0>>)

LedgerIdle == UNCHANGED <<ledgerVars, serviceVars, shimVars, codecVars>>
SessionIdle == UNCHANGED <<sessionVars, serviceVars, shimVars, codecVars>>
ServiceIdle == UNCHANGED <<ledgerVars, sessionVars, shimVars, codecVars>>
ShimIdle == UNCHANGED <<ledgerVars, sessionVars, serviceVars, codecVars>>
CodecIdle == UNCHANGED <<ledgerVars, sessionVars, serviceVars, shimVars>>

ServiceInitIdle ==
  /\ svc = KeyServiceNew([policy |-> KeyServicePolicy(MaxHandlesCfg)])
  /\ now = 0

LedgerInitIdle == kv = KeyVaultStateDefault /\ kvNext = 0

SessionInitIdle ==
  /\ sess = SessionNew("s0", 0, 0, "Normal", "Passphrase", <<"vk", 0>>, 0)
  /\ hist = [inserted |-> <<>>, recency |-> <<>>, pure |-> TRUE]

SessionInit ==
  /\ \E m \in 0..MaxHandlesCfg :
       sess = SessionNew("s0", 0, 0, "Normal", "Passphrase", <<"vk", 0>>, m)
  /\ hist = [inserted |-> <<>>, recency |-> <<>>, pure |-> TRUE]
  /\ LedgerInitIdle
  /\ ServiceInitIdle
  /\ ShimInitIdle
  /\ CodecInitIdle

InsertHandle(entry) ==
  /\ Len(hist.inserted) < MaxHandleIds
  /\ LET id == Len(hist.inserted) + 1 IN
     /\ sess' = insert_handle(sess, entry, id)
     /\ hist' = [hist EXCEPT !.inserted = Append(@, id),
                             !.recency = Append(@, id)]
  /\ LedgerIdle

GetHandle(h) ==
  /\ sess' = get_handle(sess, h).session
  /\ hist' = [hist EXCEPT !.pure = FALSE,
                          !.recency = IF MapHas(sess.handles, h)
                                      THEN Append(SeqWithout(@, h), h) ELSE @]
  /\ LedgerIdle

RemoveHandle(h) ==
  /\ sess' = remove_handle(sess, h)
  /\ hist' = [hist EXCEPT !.pure = FALSE]
  /\ LedgerIdle

Clear ==
  /\ sess' = SessionClear(sess)
  /\ hist' = [hist EXCEPT !.pure = FALSE]
  /\ LedgerIdle

SessionNext ==
  \/ \E entry \in SampleEntries : InsertHandle(entry)
  \/ \E h \in HandleIds : GetHandle(h)
  \/ \E h \in HandleIds : RemoveHandle(h)
  \/ Clear

SpecSession == SessionInit /\ [][SessionNext]_vars

(***************************************************************************)
(* C6: for every configured max_handles and every sequence of              *)
(* insert_handle, get_handle, remove_handle and clear, the session never   *)
(* holds more than max_handles handles.                                    *)
(***************************************************************************)
C6_HandlesWithinMax == Cardinality(DOMAIN sess.handles) <= sess.max_handles

\* the bound holds for every session configured with room for one handle
C6_HandlesWithinPositiveMax ==
  sess.max_handles >= 1 => Cardinality(DOMAIN sess.handles) <= sess.max_handles

C6_Witness ==
  /\ sess.max_handles >= 1
  /\ Len(hist.inserted) > sess.max_handles
  /\ Cardinality(DOMAIN sess.handles) = sess.max_handles

(***************************************************************************)
(* C7: eviction is least-recently-used.  After max_handles + k inserts     *)
(* with no get or remove in between, exactly the first k inserted handles  *)
(* are gone; and the live handles are queued in the order of their last    *)
(* touch, so that a handle touched later is never evicted earlier.         *)
(***************************************************************************)
LiveByRecency == SelectSeq(hist.recency, LAMBDA h : MapHas(sess.handles, h))

C7_LruEviction ==
  /\ (hist.pure /\ Len(hist.inserted) >= sess.max_handles) =>
       DOMAIN sess.handles =
         { hist.inserted[i] :
             i \in (Len(hist.inserted) - sess.max_handles + 1)..Len(hist.inserted) }
  /\ sess.handle_order = LiveByRecency

\* the queue follows the order of last touch whatever max_handles is
C7_QueueFollowsRecency == sess.handle_order = LiveByRecency

C7_Witness ==
  /\ hist.pure
  /\ sess.max_handles >= 1
  /\ Len(hist.inserted) = sess.max_handles + 2

(***************************************************************************)
(* SpecLedger: the ledger engine alone.  Records of every kind are         *)
(* appended to the empty KeyVaultState under one header and vault key.     *)
(***************************************************************************)
LedgerHeader ==
  [v |-> 1, vault_id |-> "vault-1", user_id |-> "user-1", aead |-> "aead-1"]

LedgerVaultKey == <<"vk", 1>>

RecordId(n) == <<"rec", n>>
Nonce(n) == <<"nonce", n>>

SampleKeypair ==
  [ed25519_priv |-> <<"edpriv", 1>>, ed25519_pub |-> <<"edpub", 1>>,
   mldsa_priv |-> <<"mlpriv", 1>>, mldsa_pub |-> <<"mlpub", 1>>]

SamplePlainRecords(record_id) ==
  { make_store_user_key_record(record_id, <<"ukpriv", 1>>, <<"ukpub", 1>>),
    make_store_device_signing_key_record(record_id, "device-1", SampleKeypair),
    make_store_scope_key_record(record_id, "scope-1", 1, <<"sk", 1>>),
    make_store_scope_key_record(record_id, "scope-1", 2, <<"sk", 2>>),
    make_store_resource_key_record(record_id, "res-1", "rk-1", <<"rk", 1>>),
    [record_id |-> record_id, kind |-> 9, payload |-> <<"map", EmptyMap>>] }

LedgerInit ==
  /\ kv = KeyVaultStateDefault
  /\ kvNext = 0
  /\ SessionInitIdle
  /\ ServiceInitIdle
  /\ ShimInitIdle
  /\ CodecInitIdle

\* a caller appends with seq = head_seq + 1 (key_service.rs) and a fresh record id
AppendRecord(record) ==
  /\ kvNext < MaxChain
  /\ LET r == append_record(kv, LedgerHeader, LedgerVaultKey, record,
                            kv.head_seq + 1, Nonce(kvNext + 1)) IN
     /\ r.ok
     /\ kv' = r.val.state
  /\ kvNext' = kvNext + 1
  /\ SessionIdle

\* a caller presents a record id already in the ledger: append_record refuses
AppendDuplicate(i) ==
  /\ i \in DOMAIN kv.records
  /\ LET record == make_store_scope_key_record(kv.records[i].record_id, "scope-1", 1, <<"sk", 1>>)
         r == append_record(kv, LedgerHeader, LedgerVaultKey, record,
                            kv.head_seq + 1, Nonce(kvNext + 1)) IN
     /\ ~r.ok
     /\ UNCHANGED kv
  /\ UNCHANGED kvNext
  /\ SessionIdle

LedgerNext ==
  \/ \E record \in SamplePlainRecords(RecordId(kvNext + 1)) : AppendRecord(record)
  \/ \E i \in 1..MaxChain : AppendDuplicate(i)

SpecLedger == LedgerInit /\ [][LedgerNext]_vars

(***************************************************************************)
(* C10: replaying the containers produced by any sequence of               *)
(* append_record calls from the empty ledger succeeds and returns the head *)
(* (head_seq, head_hash) of the appending state; the containers carry seq  *)
(* 1..n and each prev_hash is the hash of the container before it.         *)
(***************************************************************************)
Replayed == apply_containers(LedgerHeader, LedgerVaultKey, kv.records)

C10_ReplayReproducesHead ==
  /\ Replayed.ok
  /\ Replayed.val.state.head_seq = kv.head_seq
  /\ Replayed.val.state.head_hash = kv.head_hash
  /\ \A i \in DOMAIN kv.records :
       /\ kv.records[i].seq = i
       /\ kv.records[i].prev_hash =
            IF i = 1 THEN ZeroHash
            ELSE sha256(encode_keyvault_record_container_v1(kv.records[i - 1]))

C10_Witness ==
  /\ kv.head_seq = MaxChain
  /\ Len(kv.records) = MaxChain
  /\ Replayed.ok

(***************************************************************************)
(* Batches presented to replay, made from the engine's chain kv.records:   *)
(* one field of one container changed, one container dropped, the order    *)
(* permuted, and a container appended under a record_id already used       *)
(* (sealed with the vault key, numbered and linked as the engine would).   *)
(***************************************************************************)
Replay(batch) == apply_containers(LedgerHeader, LedgerVaultKey, batch)

ContainerHash(c) == sha256(encode_keyvault_record_container_v1(c))

ContainerFields == {"v", "seq", "prev_hash", "record_id", "nonce", "ct"}

FieldValues(c, field) ==
  CASE field = "v" -> {0, 2}
    [] field = "seq" -> 0..(MaxChain + 1)
    [] field = "prev_hash" ->
         {ZeroHash, <<"sha256", <<"raw">>>>} \cup {ContainerHash(kv.records[i]) : i \in DOMAIN kv.records}
    [] field = "record_id" -> {RecordId(i) : i \in 0..MaxChain}
    [] field = "nonce" -> {Nonce(i) : i \in 0..MaxChain}
    [] field = "ct" ->
         {kv.records[i].ct : i \in DOMAIN kv.records}
           \cup {[c.ct EXCEPT !.key = <<"vk", 2>>], [c.ct EXCEPT !.pt = <<"raw">>]}

MutatedIn(records, fields) ==
  UNION { UNION { { [records EXCEPT ![i][f] = x] :
                      x \in FieldValues(records[i], f) \ {records[i][f]} } :
                  f \in fields } :
          i \in DOMAIN records }

Dropped(records, i) == SubSeq(records, 1, i - 1) \o SubSeq(records, i + 1, Len(records))

Perms(n) == { p \in [1..n -> 1..n] : \A i, j \in 1..n : i # j => p[i] # p[j] }

Permuted(records, p) == [i \in DOMAIN records |-> records[p[i]]]

ForgedDuplicate(records) ==
  IF records = <<>> THEN {}
  ELSE LET record == make_store_scope_key_record(records[1].record_id, "scope-1", 1, <<"sk", 1>>)
           aad == aad_keyvault_record_v1(LedgerHeader.vault_id, LedgerHeader.user_id,
                                         LedgerHeader.aead, record.record_id)
       IN { Append(records,
                   [v |-> 1, seq |-> Len(records) + 1,
                    prev_hash |-> ContainerHash(records[Len(records)]),
                    record_id |-> record.record_id, nonce |-> Nonce(0),
                    ct |-> aead_encrypt(LedgerVaultKey, aad,
                                        encode_keyvault_record_plain_v1(record), Nonce(0))]) }

Batches ==
  {kv.records} \cup MutatedIn(kv.records, {"seq", "prev_hash", "record_id"})
    \cup { Dropped(kv.records, i) : i \in DOMAIN kv.records }
    \cup { Permuted(kv.records, p) : p \in Perms(Len(kv.records)) }
    \cup ForgedDuplicate(kv.records)

SeqExact(batch) == { batch[i].seq : i \in DOMAIN batch } = 1..Len(batch)

ChainLinked(batch) ==
  \A i \in DOMAIN batch :
    \/ batch[i].seq = 1 /\ batch[i].prev_hash = ZeroHash
    \/ \E j \in DOMAIN batch :
         batch[j].seq = batch[i].seq - 1 /\ batch[i].prev_hash = ContainerHash(batch[j])

IdsDistinct(batch) ==
  \A i, j \in DOMAIN batch : i # j => batch[i].record_id # batch[j].record_id

(***************************************************************************)
(* C11: apply_containers fails for a batch whose seq values are not        *)
(* exactly 1..n, for a batch in which some prev_hash is not the hash of    *)
(* the container with the preceding seq (zero for seq 1), and for a batch  *)
(* in which two containers share a record_id.                              *)
(***************************************************************************)
C11_MalformedBatchRejected ==
  \A batch \in Batches :
    (~SeqExact(batch) \/ ~ChainLinked(batch) \/ ~IdsDistinct(batch)) => ~Replay(batch).ok

C11_Witness ==
  /\ Len(kv.records) = MaxChain
  /\ \E batch \in Batches : ~SeqExact(batch) /\ IdsDistinct(batch)
  /\ \E batch \in Batches : SeqExact(batch) /\ ~ChainLinked(batch) /\ IdsDistinct(batch)
  /\ \E batch \in Batches : SeqExact(batch) /\ ChainLinked(batch) /\ ~IdsDistinct(batch)

(***************************************************************************)
(* C12: dropping any one container of the engine's chain, the last one     *)
(* included, makes replay of the remaining batch fail.                     *)
(***************************************************************************)
C12_DroppedContainerRejected ==
  \A i \in DOMAIN kv.records : ~Replay(Dropped(kv.records, i)).ok

\* a container dropped from before the last one is noticed
C12_InnerDropRejected ==
  \A i \in DOMAIN kv.records : i < Len(kv.records) => ~Replay(Dropped(kv.records, i)).ok

(***************************************************************************)
(* C13: presenting the containers of a chain of two or more in a permuted  *)
(* order makes replay fail.  As the code has it: replay sorts by seq, and  *)
(* every permutation of the chain replays to the result of the chain.      *)
(***************************************************************************)
C13_PermutedBatchRejected ==
  \A p \in Perms(Len(kv.records)) :
    Permuted(kv.records, p) # kv.records => ~Replay(Permuted(kv.records, p)).ok

C13_PermutedBatchReplaysSame ==
  \A p \in Perms(Len(kv.records)) :
    /\ Replay(Permuted(kv.records, p)).ok
    /\ Replay(Permuted(kv.records, p)) = Replay(kv.records)
    /\ Replay(Permuted(kv.records, p)).val.state.head_hash = kv.head_hash

C13_Witness ==
  /\ Len(kv.records) = MaxChain
  /\ \E p \in Perms(MaxChain) :
       /\ Permuted(kv.records, p)[1].seq = MaxChain
       /\ Replay(Permuted(kv.records, p)).ok

(***************************************************************************)
(* C14: changing one field (v, seq, prev_hash, record_id, nonce or ct) of  *)
(* one container of the engine's chain, the last one included, makes       *)
(* replay fail.                                                            *)
(***************************************************************************)
C14_MutatedFieldRejected ==
  \A batch \in MutatedIn(kv.records, ContainerFields) : ~Replay(batch).ok

\* every change is noticed except a change of v in the last container
C14_CheckedFieldsRejected ==
  /\ \A batch \in MutatedIn(kv.records, ContainerFields \ {"v"}) : ~Replay(batch).ok
  /\ \A batch \in MutatedIn(kv.records, {"v"}) :
       batch[Len(batch)] = kv.records[Len(batch)] => ~Replay(batch).ok

(***************************************************************************)
(* The key service.  Spec runs the vault and session lifecycle with the    *)
(* clock advancing between calls; SpecKeys runs the key hierarchy (signer  *)
(* roster, envelopes, grants, handles, identity) with the clock at rest.   *)
(* An operation is taken while the fresh values it draws stay in bounds.   *)
(***************************************************************************)
InBounds(self) ==
  /\ self.entropy.sid <= MaxSessions
  /\ self.entropy.rec <= MaxRecords
  /\ self.entropy.wrap <= MaxWraps
  /\ self.entropy.hnd <= MaxHandles

Init ==
  /\ svc = KeyServiceNew([policy |-> KeyServicePolicy(MaxHandlesCfg)])
  /\ now = 0
  /\ LedgerInitIdle
  /\ SessionInitIdle
  /\ ShimInitIdle
  /\ CodecInitIdle

\* the service once a vault is created
KeysInit ==
  /\ \E m \in 1..MaxHandlesCfg :
       svc = create_new_vault(KeyServiceNew([policy |-> KeyServicePolicy(m)]),
                              SampleUserId, "pass-a", SampleKdf).self
  /\ now = 0
  /\ LedgerInitIdle
  /\ SessionInitIdle
  /\ ShimInitIdle
  /\ CodecInitIdle

Tick ==
  /\ now < MaxClock
  /\ now' = now + 1
  /\ UNCHANGED svc
  /\ ServiceIdle

CreateNewVault(p) ==
  /\ svc' = create_new_vault(svc, SampleUserId, p, SampleKdf).self
  /\ InBounds(svc')
  /\ UNCHANGED now
  /\ ServiceIdle

UnlockPassphrase(p) ==
  /\ svc' = unlock_passphrase(svc, now, p).self
  /\ InBounds(svc')
  /\ UNCHANGED now
  /\ ServiceIdle

UnlockWebauthnPrf(prf) ==
  /\ svc' = unlock_webauthn_prf(svc, now, prf).self
  /\ InBounds(svc')
  /\ UNCHANGED now
  /\ ServiceIdle

StepUp(sid, p) ==
  /\ svc' = step_up(svc, now, sid, p).self
  /\ InBounds(svc')
  /\ UNCHANGED now
  /\ ServiceIdle

RenewSession(sid) ==
  /\ svc' = renew_session(svc, now, sid).self
  /\ InBounds(svc')
  /\ UNCHANGED now
  /\ ServiceIdle

Lock(sid) ==
  /\ svc' = lock(svc, sid).self
  /\ InBounds(svc')
  /\ UNCHANGED now
  /\ ServiceIdle

ExportKeyvault(sid) ==
  /\ svc' = export_keyvault(svc, now, sid).self
  /\ InBounds(svc')
  /\ UNCHANGED now
  /\ ServiceIdle

ImportKeyvault(sid, blob) ==
  /\ svc' = import_keyvault(svc, now, sid, blob).self
  /\ InBounds(svc')
  /\ UNCHANGED now
  /\ ServiceIdle

ChangePassphrase(sid, p) ==
  /\ svc' = change_passphrase(svc, now, sid, p).self
  /\ InBounds(svc')
  /\ UNCHANGED now
  /\ ServiceIdle

GetWebauthnPrfUnlockInfo ==
  /\ svc' = get_webauthn_prf_unlock_info(svc).self
  /\ InBounds(svc')
  /\ UNCHANGED now
  /\ ServiceIdle

EnableWebauthnPrfUnlock(sid) ==
  /\ svc' = enable_webauthn_prf_unlock(svc, now, sid, SampleCredential, SamplePrf).self
  /\ InBounds(svc')
  /\ UNCHANGED now
  /\ ServiceIdle

DisableWebauthnPrfUnlock(sid) ==
  /\ svc' = disable_webauthn_prf_unlock(svc, now, sid).self
  /\ InBounds(svc')
  /\ UNCHANGED now
  /\ ServiceIdle

IngestScopeState(sid, cbor, fp) ==
  /\ svc' = ingest_scope_state(svc, now, sid, cbor, fp).self
  /\ InBounds(svc')
  /\ UNCHANGED now
  /\ ServiceIdle

IngestKeyEnvelope(sid, cbor) ==
  /\ svc' = ingest_key_envelope(svc, now, sid, cbor).self
  /\ InBounds(svc')
  /\ UNCHANGED now
  /\ ServiceIdle

OpenScope(sid) ==
  /\ svc' = open_scope(svc, now, sid, SampleScope, 1).self
  /\ InBounds(svc')
  /\ UNCHANGED now
  /\ ServiceIdle

OpenResource(sid, h, cbor) ==
  /\ svc' = open_resource(svc, now, sid, h, cbor).self
  /\ InBounds(svc')
  /\ UNCHANGED now
  /\ ServiceIdle

CloseHandle(sid, h) ==
  /\ svc' = close_handle(svc, now, sid, h).self
  /\ InBounds(svc')
  /\ UNCHANGED now
  /\ ServiceIdle

Encrypt(sid, h) ==
  /\ svc' = encrypt(svc, now, sid, h, SampleAad, SampleData, <<"enc-nonce", 1>>).self
  /\ InBounds(svc')
  /\ UNCHANGED now
  /\ ServiceIdle

Decrypt(sid, h, ct) ==
  /\ svc' = decrypt(svc, now, sid, h, SampleAad, ct).self
  /\ InBounds(svc')
  /\ UNCHANGED now
  /\ ServiceIdle

Sign(sid) ==
  /\ svc' = sign(svc, now, sid, SampleData, SampleDevice).self
  /\ InBounds(svc')
  /\ UNCHANGED now
  /\ ServiceIdle

Verify(sig) ==
  /\ svc' = verify(svc, SampleScope, "device-owner", SampleData, sig, "hybrid-sig-1").self
  /\ InBounds(svc')
  /\ UNCHANGED now
  /\ ServiceIdle

InitIdentity(sid) ==
  /\ svc' = init_identity(svc, now, sid, SampleDevice).self
  /\ InBounds(svc')
  /\ UNCHANGED now
  /\ ServiceIdle

SampleSignatures == { hybrid_sign(SampleData, OwnerKey), hybrid_sign(SampleData, OutsiderKey) }
SamplePrfOutputs == { SamplePrf, <<"prf", 2>> }

Next ==
  \/ Tick
  \/ \E p \in Passphrases : CreateNewVault(p)
  \/ \E p \in Passphrases : UnlockPassphrase(p)
  \/ \E prf \in SamplePrfOutputs : UnlockWebauthnPrf(prf)
  \/ \E sid \in SessionIds, p \in Passphrases : StepUp(sid, p)
  \/ \E sid \in SessionIds : RenewSession(sid)
  \/ \E sid \in SessionIds : Lock(sid)
  \/ \E sid \in SessionIds : ExportKeyvault(sid)
  \/ \E sid \in SessionIds, blob \in SampleBlobs(svc) : ImportKeyvault(sid, blob)
  \/ \E sid \in SessionIds, p \in Passphrases : ChangePassphrase(sid, p)
  \/ GetWebauthnPrfUnlockInfo
  \/ \E sid \in SessionIds : EnableWebauthnPrfUnlock(sid)
  \/ \E sid \in SessionIds : DisableWebauthnPrfUnlock(sid)
  \/ \E sid \in SessionIds : OpenScope(sid)

Spec == Init /\ [][Next]_vars

KeysNext ==
  \/ \E p \in Passphrases : UnlockPassphrase(p)
  \/ \E sid \in SessionIds : Lock(sid)
  \/ \E sid \in SessionIds : InitIdentity(sid)
  \/ \E sid \in SessionIds, cbor \in SampleScopeStates, fp \in SampleFingerprints :
       IngestScopeState(sid, cbor, fp)
  \/ \E sid \in SessionIds, cbor \in SampleKeyEnvelopes(svc) : IngestKeyEnvelope(sid, cbor)
  \/ \E sid \in SessionIds : OpenScope(sid)
  \/ \E sid \in SessionIds, h \in KeyHandles, cbor \in SampleResourceGrants :
       OpenResource(sid, h, cbor)
  \/ \E sid \in SessionIds, h \in KeyHandles : CloseHandle(sid, h)
  \/ \E sid \in SessionIds, h \in KeyHandles : Encrypt(sid, h)
  \/ \E sid \in SessionIds, h \in KeyHandles, ct \in SampleCiphertexts : Decrypt(sid, h, ct)
  \/ \E sid \in SessionIds : Sign(sid)
  \/ \E sig \in SampleSignatures : Verify(sig)

SpecKeys == KeysInit /\ [][KeysNext]_vars

(***************************************************************************)
(* Observations of a service state used by the properties below.           *)
(***************************************************************************)
Range(f) == { f[x] : x \in DOMAIN f }

Roster(self) ==
  IF IsSome(self.state) THEN Unwrap(self.state).signer_roster ELSE SignerRosterDefault

Ledger(self) ==
  IF IsSome(self.state) THEN Unwrap(self.state).keyvault_state ELSE KeyVaultStateDefault

TrustedSigners(self) ==
  IF MapHas(Roster(self).scopes, SampleScope) THEN Roster(self).scopes[SampleScope]
  ELSE EmptyMap

HasAcceptedScopeState(self) ==
  /\ MapHas(Roster(self).scope_state_refs, SampleScope)
  /\ Roster(self).scope_state_refs[SampleScope] # {}

\* a record was appended between two service states: in storage or in memory
Appended(before, after) ==
  \/ after.storage # before.storage
  \/ Ledger(after) # Ledger(before)

HandleIssued(before, after) ==
  \E sid \in DOMAIN after.sessions :
    \E h \in DOMAIN after.sessions[sid].handles :
      ~(MapHas(before.sessions, sid) /\ MapHas(before.sessions[sid].handles, h))

(***************************************************************************)
(* C1: in every reachable state the record containers listed in            *)
(* keyvault/record_index, ordered by seq, form a valid chain: seq is       *)
(* exactly 1..n, the first prev_hash is zero, each later prev_hash is the  *)
(* hash of the container before it, and all record_ids are distinct.       *)
(***************************************************************************)
StoredContainers == load_all_record_containers(svc)

C1_StoredChainValid ==
  /\ StoredContainers.ok
  /\ \A i \in DOMAIN StoredContainers.val :
       /\ StoredContainers.val[i].seq = i
       /\ StoredContainers.val[i].prev_hash =
            IF i = 1 THEN ZeroHash
            ELSE sha256(encode_keyvault_record_container_v1(StoredContainers.val[i - 1]))
  /\ \A i, j \in DOMAIN StoredContainers.val :
       i # j => StoredContainers.val[i].record_id # StoredContainers.val[j].record_id

(***************************************************************************)
(* C3: once a scope has an accepted scope state, ingest_scope_state of a   *)
(* scope state whose signing keys are not already trusted for the scope    *)
(* adds no signer and replaces no recorded keys.                           *)
(***************************************************************************)
C3_FirstScopeStateFixesSigners ==
  \A sid \in SessionIds, fp \in SampleFingerprints :
    \A scope_state \in {OwnerScopeState, OutsiderSameDevice, OutsiderNewDevice} :
      (/\ HasAcceptedScopeState(svc)
       /\ extract_signer_keys(scope_state).val \notin Range(TrustedSigners(svc)))
      => TrustedSigners(ingest_scope_state(svc, now, sid, encode_scope_state_v1(scope_state),
                                           fp).self)
           = TrustedSigners(svc)

(***************************************************************************)
(* C2: ingest_key_envelope appends a scope-key record, and open_resource   *)
(* appends a resource-key record and issues a handle, only if at the call  *)
(* the roster holds (scope_id, signer_device_id), the accepted             *)
(* scope_state_ref set of the scope holds the object's scope_state_ref,    *)
(* and the hybrid signature verifies under the rostered keys; in every     *)
(* other case nothing is appended and no handle is issued.                 *)
(***************************************************************************)
Trusted(self, scope_id, device_id, scope_state_ref, to_be_signed, signature) ==
  /\ scope_id \in DOMAIN Roster(self).scopes
  /\ device_id \in DOMAIN Roster(self).scopes[scope_id]
  /\ scope_id \in DOMAIN Roster(self).scope_state_refs
  /\ hex_encode(scope_state_ref) \in Roster(self).scope_state_refs[scope_id]
  /\ hybrid_verify(to_be_signed, signature, Roster(self).scopes[scope_id][device_id])

EnvelopeTrusted(self, cbor) ==
  /\ decode_canonical_value(cbor).ok
  /\ KeyEnvelopeV1_from_cbor(decode_canonical_value(cbor).val).ok
  /\ LET e == KeyEnvelopeV1_from_cbor(decode_canonical_value(cbor).val).val IN
     Trusted(self, e.scope_id, e.signer_device_id, e.scope_state_ref,
             key_envelope_to_be_signed_bytes(e), e.signature)

GrantTrusted(self, cbor) ==
  /\ decode_canonical_value(cbor).ok
  /\ ResourceGrantV1_from_cbor(decode_canonical_value(cbor).val).ok
  /\ LET g == ResourceGrantV1_from_cbor(decode_canonical_value(cbor).val).val IN
     Trusted(self, g.scope_id, g.signer_device_id, g.scope_state_ref,
             resource_grant_to_be_signed_bytes(g), g.signature)

Accepted(r) == r.res.ok \/ Appended(svc, r.self) \/ HandleIssued(svc, r.self)

C2_OnlyTrustedObjectsAppend ==
  /\ \A sid \in SessionIds, cbor \in SampleKeyEnvelopes(svc) :
       Accepted(ingest_key_envelope(svc, now, sid, cbor)) => EnvelopeTrusted(svc, cbor)
  /\ \A sid \in SessionIds, h \in KeyHandles, cbor \in SampleResourceGrants :
       Accepted(open_resource(svc, now, sid, h, cbor)) => GrantTrusted(svc, cbor)

\* an envelope was ingested and a grant opened: a resource key sits behind a handle
C2_Witness ==
  /\ IsSome(svc.state)
  /\ MapHas(Unwrap(svc.state).keyvault_materialized.scope_keys, <<SampleScope, 1>>)
  /\ MapHas(Unwrap(svc.state).keyvault_materialized.resource_keys,
            <<SampleResource, SampleResourceKeyId>>)
  /\ \E sid \in DOMAIN svc.sessions :
       \E h \in DOMAIN svc.sessions[sid].handles :
         svc.sessions[sid].handles[h].type = "ResourceKey"

(***************************************************************************)
(* C9: when ingest_scope_state, ingest_key_envelope, open_resource, an     *)
(* unlock or step_up fails on a signature, AEAD or format check, every     *)
(* storage key holds the value it held before the call, and the ledger     *)
(* head and the signer roster in memory are unchanged.                     *)
(***************************************************************************)
FailClosedErrors == {"CryptoError", "InvalidCbor", "InvalidFormat"}

MemoryFrame(self) ==
  IF IsSome(self.state)
  THEN Some([head_seq |-> Ledger(self).head_seq, head_hash |-> Ledger(self).head_hash,
             signer_roster |-> Roster(self)])
  ELSE None

FailsClosed(r) ==
  (~r.res.ok /\ r.res.err \in FailClosedErrors)
    => (r.self.storage = svc.storage /\ MemoryFrame(r.self) = MemoryFrame(svc))

C9_FailClosed ==
  /\ \A sid \in SessionIds, cbor \in SampleScopeStates, fp \in SampleFingerprints :
       FailsClosed(ingest_scope_state(svc, now, sid, cbor, fp))
  /\ \A sid \in SessionIds, cbor \in SampleKeyEnvelopes(svc) :
       FailsClosed(ingest_key_envelope(svc, now, sid, cbor))
  /\ \A sid \in SessionIds, h \in KeyHandles, cbor \in SampleResourceGrants :
       FailsClosed(open_resource(svc, now, sid, h, cbor))
  /\ \A p \in Passphrases : FailsClosed(unlock_passphrase(svc, now, p))
  /\ \A prf \in SamplePrfOutputs : FailsClosed(unlock_webauthn_prf(svc, now, prf))
  /\ \A sid \in SessionIds, p \in Passphrases : FailsClosed(step_up(svc, now, sid, p))

\* a state with a roster, a user key and a scope handle, where each operation fails
C9_Witness ==
  \E sid \in DOMAIN svc.sessions :
    /\ HasAcceptedScopeState(svc)
    /\ ingest_scope_state(svc, now, sid, encode_scope_state_v1(ForgedScopeState),
                          None).res.err = "CryptoError"
    /\ \E cbor \in SampleKeyEnvelopes(svc) :
         ingest_key_envelope(svc, now, sid, cbor).res.err = "CryptoError"
    /\ \E h \in KeyHandles, cbor \in SampleResourceGrants :
         open_resource(svc, now, sid, h, cbor).res.err = "CryptoError"
    /\ unlock_passphrase(svc, now, "pass-b").res.err = "CryptoError"
    /\ step_up(svc, now, sid, "pass-b").res.err = "CryptoError"

(***************************************************************************)
(* C4: every session-bearing operation presented with a session whose      *)
(* expires_at_ms is before now returns SessionInvalid, and afterwards the  *)
(* session is gone from the session table.                                 *)
(***************************************************************************)
Expired(self, sid) ==
  MapHas(self.sessions, sid) /\ now > self.sessions[sid].expires_at_ms

Refused(r, sid) == r.res = Err("SessionInvalid") /\ ~MapHas(r.self.sessions, sid)

C4_ExpiredSessionRefused ==
  \A sid \in SessionIds :
    Expired(svc, sid) =>
      /\ Refused(renew_session(svc, now, sid), sid)
      /\ \A p \in Passphrases : Refused(step_up(svc, now, sid, p), sid)
      /\ Refused(export_keyvault(svc, now, sid), sid)
      /\ \A blob \in SampleBlobs(svc) : Refused(import_keyvault(svc, now, sid, blob), sid)
      /\ \A p \in Passphrases : Refused(change_passphrase(svc, now, sid, p), sid)
      /\ Refused(enable_webauthn_prf_unlock(svc, now, sid, SampleCredential, SamplePrf), sid)
      /\ Refused(disable_webauthn_prf_unlock(svc, now, sid), sid)
      /\ \A cbor \in SampleScopeStates, fp \in SampleFingerprints :
           Refused(ingest_scope_state(svc, now, sid, cbor, fp), sid)
      /\ \A cbor \in SampleKeyEnvelopes(svc) :
           Refused(ingest_key_envelope(svc, now, sid, cbor), sid)
      /\ Refused(open_scope(svc, now, sid, SampleScope, 1), sid)
      /\ \A h \in KeyHandles, cbor \in SampleResourceGrants :
           Refused(open_resource(svc, now, sid, h, cbor), sid)
      /\ \A h \in KeyHandles : Refused(close_handle(svc, now, sid, h), sid)
      /\ \A h \in KeyHandles :
           Refused(encrypt(svc, now, sid, h, SampleAad, SampleData, <<"enc-nonce", 1>>), sid)
      /\ \A h \in KeyHandles, ct \in SampleCiphertexts :
           Refused(decrypt(svc, now, sid, h, SampleAad, ct), sid)
      /\ Refused(sign(svc, now, sid, SampleData, SampleDevice), sid)

(***************************************************************************)
(* C5: export_keyvault, import_keyvault, change_passphrase and enabling    *)
(* or disabling user-presence unlock, presented with a valid normal        *)
(* session, fail with StepUpRequired and write nothing; the vault key wrap *)
(* of a stored header and the webauthn_prf slot change only in a step      *)
(* taken while a valid step-up session exists.                             *)
(***************************************************************************)
ValidSession(self, sid, kind) ==
  /\ MapHas(self.sessions, sid)
  /\ now <= self.sessions[sid].expires_at_ms
  /\ self.sessions[sid].kind = kind

Gated(r) == r.res = Err("StepUpRequired") /\ r.self.storage = svc.storage

C5_NormalSessionGated ==
  \A sid \in SessionIds :
    ValidSession(svc, sid, "Normal") =>
      /\ Gated(export_keyvault(svc, now, sid))
      /\ \A blob \in SampleBlobs(svc) : Gated(import_keyvault(svc, now, sid, blob))
      /\ \A p \in Passphrases : Gated(change_passphrase(svc, now, sid, p))
      /\ Gated(enable_webauthn_prf_unlock(svc, now, sid, SampleCredential, SamplePrf))
      /\ Gated(disable_webauthn_prf_unlock(svc, now, sid))

VaultKeyWrap(self) ==
  IF load_header(self).ok
  THEN Some([kdf |-> load_header(self).val.kdf,
             vault_key_wrap |-> load_header(self).val.vault_key_wrap])
  ELSE None

PrfSlot(self) == storage_get(self, WebauthnPrfKey)

C5_WrapChangesOnlyUnderStepUp ==
  [][(/\ IsSome(VaultKeyWrap(svc))
      /\ \/ VaultKeyWrap(svc') # VaultKeyWrap(svc)
         \/ PrfSlot(svc') # PrfSlot(svc))
     => \E sid \in SessionIds : ValidSession(svc, sid, "StepUp")]_vars

(***************************************************************************)
(* C8: a successful lock(s) removes s from the session table and unloads   *)
(* the materialized vault, and every operation presenting s afterwards     *)
(* fails with SessionInvalid; lock on an unknown session id fails with     *)
(* SessionInvalid.                                                         *)
(***************************************************************************)
RefusedAfterLock(self, sid) ==
  /\ renew_session(self, now, sid).res = Err("SessionInvalid")
  /\ \A p \in Passphrases : step_up(self, now, sid, p).res = Err("SessionInvalid")
  /\ export_keyvault(self, now, sid).res = Err("SessionInvalid")
  /\ \A p \in Passphrases : change_passphrase(self, now, sid, p).res = Err("SessionInvalid")
  /\ open_scope(self, now, sid, SampleScope, 1).res = Err("SessionInvalid")
  /\ \A h \in KeyHandles :
       encrypt(self, now, sid, h, SampleAad, SampleData, <<"enc-nonce", 1>>).res
         = Err("SessionInvalid")
  /\ sign(self, now, sid, SampleData, SampleDevice).res = Err("SessionInvalid")
  /\ lock(self, sid).res = Err("SessionInvalid")

C8_LockDestroysSession ==
  [][\A sid \in SessionIds :
       (MapHas(svc.sessions, sid) /\ svc' = lock(svc, sid).self /\ now' = now) =>
         /\ ~MapHas(svc'.sessions, sid)
         /\ svc'.state = None
         /\ RefusedAfterLock(svc', sid)]_vars

(***************************************************************************)
(* C15: step_up(s, passphrase) on a valid session: if the vault key        *)
(* unwrapped from the stored header with the passphrase equals the         *)
(* session's vault key, the session becomes kind StepUp with assurance     *)
(* Passphrase, issued_at_ms = now and expires_at_ms = now +                *)
(* step_up_session_ttl_ms; otherwise the call fails with CryptoError and   *)
(* the session's kind, assurance, issued_at_ms and expires_at_ms are       *)
(* unchanged.                                                              *)
(***************************************************************************)
LiveSession(self, sid) ==
  MapHas(self.sessions, sid) /\ now <= self.sessions[sid].expires_at_ms

Lifetime(session) ==
  [kind |-> session.kind, assurance |-> session.assurance,
   issued_at_ms |-> session.issued_at_ms, expires_at_ms |-> session.expires_at_ms]

PassphraseOpensSessionKey(self, sid, p) ==
  /\ load_header(self).ok
  /\ unwrap_vault_key(load_header(self).val, p).ok
  /\ unwrap_vault_key(load_header(self).val, p).val = self.sessions[sid].vault_key

SteppedUp(r, sid) ==
  /\ r.res.ok
  /\ MapHas(r.self.sessions, sid)
  /\ Lifetime(r.self.sessions[sid]) =
       [kind |-> "StepUp", assurance |-> "Passphrase",
        issued_at_ms |-> now, expires_at_ms |-> now + step_up_session_ttl_ms]
  /\ r.res.val = [issued_at_ms |-> now, expires_at_ms |-> now + step_up_session_ttl_ms]

C15_StepUpOutcome ==
  \A sid \in SessionIds, p \in Passphrases :
    LiveSession(svc, sid) =>
      IF PassphraseOpensSessionKey(svc, sid, p)
      THEN SteppedUp(step_up(svc, now, sid, p), sid)
      ELSE /\ step_up(svc, now, sid, p).res = Err("CryptoError")
           /\ MapHas(step_up(svc, now, sid, p).self.sessions, sid)
           /\ Lifetime(step_up(svc, now, sid, p).self.sessions[sid]) = Lifetime(svc.sessions[sid])

C15_Witness ==
  \E sid \in SessionIds :
    /\ LiveSession(svc, sid)
    /\ svc.sessions[sid].kind = "StepUp"
    /\ svc.sessions[sid].issued_at_ms > 0
    /\ svc.sessions[sid].expires_at_ms = svc.sessions[sid].issued_at_ms + step_up_session_ttl_ms
    /\ \E p \in Passphrases : ~PassphraseOpensSessionKey(svc, sid, p)
    /\ \E p \in Passphrases : PassphraseOpensSessionKey(svc, sid, p)

(***************************************************************************)
(* C16: renew_session on a valid StepUp session fails with StepUpRequired  *)
(* and leaves the session as it was; a session of kind StepUp stays        *)
(* StepUp for as long as it exists, and its expires_at_ms changes only in  *)
(* a successful step_up of that session.                                   *)
(***************************************************************************)
RenewRefusedForStepUp ==
  \A sid \in SessionIds :
    ValidSession(svc, sid, "StepUp") =>
      /\ renew_session(svc, now, sid).res = Err("StepUpRequired")
      /\ renew_session(svc, now, sid).self = svc

C16_StepUpNotRenewable ==
  /\ []RenewRefusedForStepUp
  /\ [][\A sid \in SessionIds :
          (/\ MapHas(svc.sessions, sid)
           /\ svc.sessions[sid].kind = "StepUp"
           /\ MapHas(svc'.sessions, sid)) =>
            /\ svc'.sessions[sid].kind = "StepUp"
            /\ svc'.sessions[sid].expires_at_ms # svc.sessions[sid].expires_at_ms =>
                 \E p \in Passphrases :
                   /\ step_up(svc, now, sid, p).res.ok
                   /\ svc' = step_up(svc, now, sid, p).self]_vars

C16_Witness ==
  \E sid \in SessionIds :
    /\ ValidSession(svc, sid, "StepUp")
    /\ now > svc.sessions[sid].issued_at_ms
    /\ renew_session(svc, now, sid).res = Err("StepUpRequired")

(***************************************************************************)
(* C17: a successful renew_session never moves expires_at_ms earlier, at   *)
(* whatever clock reading the session is still valid, the clock being      *)
(* monotonic or not.                                                       *)
(***************************************************************************)
ClockReadings == 0..MaxClock

C17_RenewNeverShortens ==
  \A sid \in SessionIds, t \in ClockReadings :
    (MapHas(svc.sessions, sid) /\ t <= svc.sessions[sid].expires_at_ms) =>
      (renew_session(svc, t, sid).res.ok =>
         renew_session(svc, t, sid).self.sessions[sid].expires_at_ms
           >= svc.sessions[sid].expires_at_ms)

\* with readings that are not before the session's issued_at_ms it holds
C17_ForwardRenewNeverShortens ==
  \A sid \in SessionIds, t \in ClockReadings :
    (/\ MapHas(svc.sessions, sid)
     /\ svc.sessions[sid].issued_at_ms <= t
     /\ t <= svc.sessions[sid].expires_at_ms) =>
      (renew_session(svc, t, sid).res.ok =>
         renew_session(svc, t, sid).self.sessions[sid].expires_at_ms
           >= svc.sessions[sid].expires_at_ms)

(***************************************************************************)
(* C18: a session is valid at every clock value up to and including its    *)
(* expires_at_ms: no operation then answers SessionInvalid or drops the    *)
(* session; a normal session unlocked at t with lifetime TTL is renewed at *)
(* t + TTL, and a renewal at the renewed expires_at_ms + 1 fails with      *)
(* SessionInvalid.                                                         *)
(***************************************************************************)
Admitted(r, sid) == r.res.err # "SessionInvalid" /\ MapHas(r.self.sessions, sid)

AdmittedEverywhere(self, t, sid) ==
  /\ ensure_session_valid(self, t, sid) = Ret(self, Ok(Unit))
  /\ Admitted(renew_session(self, t, sid), sid)
  /\ \A p \in Passphrases : Admitted(step_up(self, t, sid, p), sid)
  /\ Admitted(export_keyvault(self, t, sid), sid)
  /\ \A p \in Passphrases : Admitted(change_passphrase(self, t, sid, p), sid)
  /\ Admitted(enable_webauthn_prf_unlock(self, t, sid, SampleCredential, SamplePrf), sid)
  /\ Admitted(disable_webauthn_prf_unlock(self, t, sid), sid)
  /\ \A cbor \in SampleScopeStates, fp \in SampleFingerprints :
       Admitted(ingest_scope_state(self, t, sid, cbor, fp), sid)
  /\ Admitted(open_scope(self, t, sid, SampleScope, 1), sid)
  /\ \A h \in KeyHandles : Admitted(close_handle(self, t, sid, h), sid)
  /\ \A h \in KeyHandles :
       Admitted(encrypt(self, t, sid, h, SampleAad, SampleData, <<"enc-nonce", 1>>), sid)
  /\ Admitted(sign(self, t, sid, SampleData, SampleDevice), sid)

RenewedAtExpiry(self, sid) ==
  LET expires == self.sessions[sid].expires_at_ms
      renewed == renew_session(self, expires, sid)
  IN /\ renewed.res.ok
     /\ renewed.res.val.expires_at_ms = expires + normal_session_ttl_ms
     /\ renewed.self.sessions[sid].expires_at_ms = renewed.res.val.expires_at_ms
     /\ renew_session(renewed.self, renewed.res.val.expires_at_ms, sid).res.ok
     /\ renew_session(renewed.self, renewed.res.val.expires_at_ms + 1, sid).res
          = Err("SessionInvalid")

C18_ValidThroughExpiry ==
  \A sid \in SessionIds :
    MapHas(svc.sessions, sid) =>
      /\ \A t \in 0..svc.sessions[sid].expires_at_ms : AdmittedEverywhere(svc, t, sid)
      /\ svc.sessions[sid].kind = "Normal" => RenewedAtExpiry(svc, sid)

C18_Witness ==
  \E sid \in SessionIds :
    /\ ValidSession(svc, sid, "Normal")
    /\ svc.sessions[sid].expires_at_ms = svc.sessions[sid].issued_at_ms + normal_session_ttl_ms
    /\ now = svc.sessions[sid].expires_at_ms
    /\ renew_session(svc, now, sid).res.ok

(***************************************************************************)
(* C19: with a vault loaded, ingest_key_envelope presented with a valid    *)
(* session and an envelope whose (scope_id, signer_device_id) no           *)
(* successful ingest_scope_state has registered since the load fails with  *)
(* UntrustedSigner and changes nothing, whatever the envelope's reference, *)
(* signature, recipient and fingerprint are.                               *)
(***************************************************************************)
DecodedEnvelopes(self) ==
  { KeyEnvelopeV1_from_cbor(decode_canonical_value(cbor).val).val :
      cbor \in { c \in SampleKeyEnvelopes(self) :
                   /\ decode_canonical_value(c).ok
                   /\ KeyEnvelopeV1_from_cbor(decode_canonical_value(c).val).ok } }

Registered(self, scope_id, device_id) ==
  /\ scope_id \in DOMAIN Roster(self).scopes
  /\ device_id \in DOMAIN Roster(self).scopes[scope_id]

\* the roster gains a signer only in a successful ingest_scope_state
RegisteredOnlyByScopeState ==
  [][\A device_id \in {"device-owner", "device-outsider"} :
       (Registered(svc', SampleScope, device_id) /\ ~Registered(svc, SampleScope, device_id)) =>
         \E sid \in SessionIds, cbor \in SampleScopeStates, fp \in SampleFingerprints :
           /\ ingest_scope_state(svc, now, sid, cbor, fp).res.ok
           /\ svc' = ingest_scope_state(svc, now, sid, cbor, fp).self]_vars

C19_UnloadedVaultUnknownScope ==
  \A sid \in SessionIds, e \in DecodedEnvelopes(svc) :
    (LiveSession(svc, sid) /\ ~IsSome(svc.state)) =>
      ingest_key_envelope(svc, now, sid, encode_key_envelope_v1(e)).res = Err("UnknownScope")

(***************************************************************************)
(* C20: after a successful change_passphrase(s, new) in a step-up session, *)
(* with new different from the old passphrase, unlock_passphrase(old)      *)
(* fails with CryptoError, unlock_passphrase(new) succeeds, and the ledger *)
(* that unlock materializes is the stored ledger of before the change: the *)
(* vault key and the header's records are unchanged.                       *)
(***************************************************************************)
StoredLedger(self) == load_all_record_containers(self)

UnlockedSession(r) == r.self.sessions[r.res.val.session_id]

ChangeKeepsVault(self, sid, old, new) ==
  LET changed == change_passphrase(self, now, sid, new)
      with_old == unlock_passphrase(changed.self, now, old)
      with_new == unlock_passphrase(changed.self, now, new)
  IN changed.res.ok =>
       /\ with_old.res = Err("CryptoError")
       /\ with_new.res.ok
       /\ UnlockedSession(with_new).vault_key = self.sessions[sid].vault_key
       /\ load_header(changed.self).val.records = load_header(self).val.records
       /\ StoredLedger(changed.self) = StoredLedger(self)
       /\ Unwrap(with_new.self.state).keyvault_state.records = StoredLedger(self).val

C20_ChangePassphraseKeepsVault ==
  \A sid \in SessionIds, old \in Passphrases, new \in Passphrases :
    (LiveSession(svc, sid) /\ new # old /\ step_up(svc, now, sid, old).res.ok) =>
      ChangeKeepsVault(step_up(svc, now, sid, old).self, sid, old, new)

\* it holds wherever the stored records are one valid chain
C20_ValidChainChangeKeepsVault ==
  \A sid \in SessionIds, old \in Passphrases, new \in Passphrases :
    (/\ LiveSession(svc, sid)
     /\ new # old
     /\ step_up(svc, now, sid, old).res.ok
     /\ C1_StoredChainValid) =>
      ChangeKeepsVault(step_up(svc, now, sid, old).self, sid, old, new)

(***************************************************************************)
(* C21: export_keyvault from service A (svc) in a step-up session,         *)
(* followed by import_keyvault of the blob into a fresh service B in a     *)
(* step-up session of B, leaves B's stored header, record entries and      *)
(* record index equal to A's, and a following unlock_passphrase on B with  *)
(* A's passphrase succeeds and materializes the keys and the ledger head   *)
(* that the same unlock materializes on A.                                 *)
(***************************************************************************)
\* a second service with its own entropy, a vault of its own and a step-up session
FreshEntropy == MaxSessions + MaxWraps + 1

FreshService(config) ==
  LET new == [KeyServiceNew(config) EXCEPT !.entropy.wrap = FreshEntropy,
                                           !.entropy.sid = FreshEntropy]
      created == create_new_vault(new, "user-2", "pass-b", KdfParams(<<"salt", FreshEntropy>>))
      unlocked == unlock_passphrase(created.self, now, "pass-b")
  IN step_up(unlocked.self, now, unlocked.res.val.session_id, "pass-b").self

FreshSession == FreshEntropy + 1

VaultKeys(self) ==
  {HeaderKey, RecordIndexKey} \cup { k \in DOMAIN self.storage : k[1] = "record" }

VaultStore(self) == [k \in VaultKeys(self) |-> self.storage[k]]

Materialized(r) ==
  IF r.res.ok /\ IsSome(r.self.state)
  THEN Some([keys |-> Unwrap(r.self.state).keyvault_materialized,
             head_seq |-> Unwrap(r.self.state).keyvault_state.head_seq,
             head_hash |-> Unwrap(r.self.state).keyvault_state.head_hash])
  ELSE None

Rehydrated(a, sid, p) ==
  LET exported == export_keyvault(a, now, sid)
      b == FreshService(a.config)
      imported == import_keyvault(b, now, FreshSession, exported.res.val)
      unlocked == unlock_passphrase(imported.self, now, p)
  IN exported.res.ok =>
       /\ imported.res.ok
       /\ VaultStore(imported.self) = VaultStore(a)
       /\ unlocked.res.ok
       /\ IsSome(Materialized(unlocked))
       /\ Materialized(unlocked) = Materialized(unlock_passphrase(a, now, p))

C21_ExportImportRehydrates ==
  \A sid \in SessionIds, p \in Passphrases :
    (LiveSession(svc, sid) /\ step_up(svc, now, sid, p).res.ok) =>
      Rehydrated(step_up(svc, now, sid, p).self, sid, p)

\* it holds wherever A's index has been written by an append and its records are one valid chain
C21_RecordedValidChainRehydrates ==
  \A sid \in SessionIds, p \in Passphrases :
    (/\ LiveSession(svc, sid)
     /\ step_up(svc, now, sid, p).res.ok
     /\ svc.storage[RecordIndexKey] # EmptyBytes
     /\ C1_StoredChainValid) =>
      Rehydrated(step_up(svc, now, sid, p).self, sid, p)

\* an index never appended to is stored as empty bytes and imported as an encoded empty array
C21_EmptyIndexRewritten ==
  \A sid \in SessionIds, p \in Passphrases :
    (/\ LiveSession(svc, sid)
     /\ step_up(svc, now, sid, p).res.ok
     /\ svc.storage[RecordIndexKey] = EmptyBytes) =>
      import_keyvault(FreshService(svc.config), now, FreshSession,
                      export_keyvault(step_up(svc, now, sid, p).self, now, sid).res.val
                     ).self.storage[RecordIndexKey] = encode_record_index(<<>>)

(***************************************************************************)
(* C22: import_keyvault applies all of its writes (header, every record    *)
(* entry, record index) or none of them: when a storage put fails after    *)
(* some writes were made, the stored vault is as it was before the call    *)
(* and unlock_passphrase still succeeds with the passphrase that worked    *)
(* before.                                                                 *)
(***************************************************************************)
\* the puts of import_keyvault, in the order the code makes them
ImportPuts(snapshot) ==
  <<[key |-> HeaderKey, value |-> encode_keyvault_header_v1(snapshot.header)]>>
    \o [i \in DOMAIN snapshot.records |->
          [key |-> RecordKey(snapshot.records[i].record_id),
           value |-> encode_keyvault_record_container_v1(snapshot.records[i])]]
    \o <<[key |-> RecordIndexKey,
          value |-> encode_record_index([i \in DOMAIN snapshot.records |->
                                           snapshot.records[i].record_id])]>>

RECURSIVE ApplyPuts(_, _, _)
ApplyPuts(self, puts, n) ==
  IF n = 0 THEN self
  ELSE storage_put(ApplyPuts(self, puts, n - 1), puts[n].key, puts[n].value)

\* import_keyvault over a storage adapter whose put number completed + 1 returns an error
import_keyvault_put_fails(self, now_ms, session_id, blob, completed) ==
  LET gate == require_step_up(self, now_ms, session_id)
      value == decode_canonical_value(blob)
      snapshot == KeyVaultSnapshotV1_from_cbor(value.val)
  IN
  IF ~gate.res.ok THEN gate
  ELSE IF ~value.ok THEN Ret(self, Err("InvalidCbor"))
  ELSE IF ~snapshot.ok THEN Ret(self, Err("InvalidFormat"))
  ELSE IF completed >= Len(ImportPuts(snapshot.val))
       THEN Ret(ApplyPuts(self, ImportPuts(snapshot.val), Len(ImportPuts(snapshot.val))),
                Ok(Unit))
       ELSE Ret(ApplyPuts(self, ImportPuts(snapshot.val), completed), Err("StorageError"))

\* a snapshot of another vault, and the snapshot of this one
ForeignBlob(self) ==
  export_keyvault(FreshService(self.config), now, FreshSession).res.val

ImportBlobs(self) == {ForeignBlob(self)} \cup OkValues(CurrentSnapshot(self))

PutCount(blob) ==
  Len(ImportPuts(KeyVaultSnapshotV1_from_cbor(decode_canonical_value(blob).val).val))

\* with every put succeeding it is import_keyvault
ImportPutsAreImport ==
  \A sid \in SessionIds, p \in Passphrases, blob \in ImportBlobs(svc) \cup {Garbage} :
    LiveSession(svc, sid) =>
      /\ import_keyvault_put_fails(svc, now, sid, blob, MaxRecords + 2)
           = import_keyvault(svc, now, sid, blob)
      /\ import_keyvault_put_fails(step_up(svc, now, sid, p).self, now, sid, blob, MaxRecords + 2)
           = import_keyvault(step_up(svc, now, sid, p).self, now, sid, blob)

AllOrNothing(self, sid, p, blob, completed) ==
  LET cut == import_keyvault_put_fails(self, now, sid, blob, completed) IN
  /\ cut.res = Err("StorageError")
  /\ cut.self.storage = self.storage
  /\ unlock_passphrase(self, now, p).res.ok => unlock_passphrase(cut.self, now, p).res.ok

C22_ImportAllOrNothing ==
  \A sid \in SessionIds, p \in Passphrases, blob \in ImportBlobs(svc) :
    (LiveSession(svc, sid) /\ step_up(svc, now, sid, p).res.ok) =>
      \A completed \in 0..(PutCount(blob) - 1) :
        AllOrNothing(step_up(svc, now, sid, p).self, sid, p, blob, completed)

\* a failure of the first put leaves the store untouched
C22_FirstPutFailureWritesNothing ==
  \A sid \in SessionIds, p \in Passphrases, blob \in ImportBlobs(svc) :
    (LiveSession(svc, sid) /\ step_up(svc, now, sid, p).res.ok) =>
      AllOrNothing(step_up(svc, now, sid, p).self, sid, p, blob, 0)

(***************************************************************************)
(* C23: after every successful public operation (the appending ones, the   *)
(* header rewrite of change_passphrase, import_keyvault) the records array *)
(* of the stored header is, in seq order, the sequence of containers       *)
(* stored under the record keys of exactly the ids in the record index.    *)
(***************************************************************************)
IndexedContainers(self) ==
  [i \in DOMAIN load_record_index(self).val |->
     decode_keyvault_record_container_v1(
       self.storage[RecordKey(load_record_index(self).val[i])]).val]

HeaderMirrorsStore(self) ==
  /\ load_header(self).ok
  /\ load_record_index(self).ok
  /\ \A i \in DOMAIN load_record_index(self).val :
       /\ MapHas(self.storage, RecordKey(load_record_index(self).val[i]))
       /\ decode_keyvault_record_container_v1(
            self.storage[RecordKey(load_record_index(self).val[i])]).ok
  /\ load_header(self).val.records = SortBySeq(IndexedContainers(self))

\* a well-formed snapshot whose header lists none of the records it carries
UnlistedSnapshot(self) ==
  encode_keyvault_snapshot_v1(
    [header |-> [load_header(self).val EXCEPT !.records = <<>>],
     records |-> load_all_record_containers(self).val])

MirrorAfterImport(self, sid, blob) ==
  import_keyvault(self, now, sid, blob).res.ok =>
    HeaderMirrorsStore(import_keyvault(self, now, sid, blob).self)

MirrorAfterChange(self, sid, new) ==
  change_passphrase(self, now, sid, new).res.ok =>
    HeaderMirrorsStore(change_passphrase(self, now, sid, new).self)

C23_HeaderMirrorsStore ==
  /\ HeaderMirrorsStore(svc)
  /\ \A sid \in SessionIds, p \in Passphrases :
       (LiveSession(svc, sid) /\ step_up(svc, now, sid, p).res.ok) =>
         /\ \A blob \in ImportBlobs(svc) \cup {UnlistedSnapshot(svc)} :
              MirrorAfterImport(step_up(svc, now, sid, p).self, sid, blob)
         /\ \A new \in Passphrases : MirrorAfterChange(step_up(svc, now, sid, p).self, sid, new)

\* with a valid stored chain it holds after the appends, after change_passphrase and
\* after the import of a snapshot made by export_keyvault
C23_ValidChainExportedMirrors ==
  C1_StoredChainValid =>
    /\ HeaderMirrorsStore(svc)
    /\ \A sid \in SessionIds, p \in Passphrases :
         (LiveSession(svc, sid) /\ step_up(svc, now, sid, p).res.ok) =>
           /\ \A blob \in ImportBlobs(svc) :
                MirrorAfterImport(step_up(svc, now, sid, p).self, sid, blob)
           /\ \A new \in Passphrases :
                MirrorAfterChange(step_up(svc, now, sid, p).self, sid, new)

\* the import of a snapshot whose header does not list its records breaks it on its own
C23_UnlistedImportMirrors ==
  \A sid \in SessionIds, p \in Passphrases :
    (/\ LiveSession(svc, sid)
     /\ step_up(svc, now, sid, p).res.ok
     /\ C1_StoredChainValid) =>
      MirrorAfterImport(step_up(svc, now, sid, p).self, sid, UnlistedSnapshot(svc))

(***************************************************************************)
(* C24: when replay of the stored ledger fails during unlock (a container  *)
(* failing the seq, record_id, prev_hash, decrypt or decode check), unlock *)
(* returns an error and materializes nothing of the batch: the loaded      *)
(* state is what it was before the call, and with no vault loaded before   *)
(* the call none is loaded after it, whatever valid containers precede the *)
(* failing one.                                                            *)
(***************************************************************************)
\* the service once every session is locked
RECURSIVE LockSessions(_, _)
LockSessions(self, sids) ==
  IF sids = {} THEN self
  ELSE LET sid == CHOOSE x \in sids : TRUE
       IN LockSessions(lock(self, sid).self, sids \ {sid})

lock_all(self) == LockSessions(self, DOMAIN self.sessions)

\* ledgers with one bad container, each failing one check of replay
BrokenLedgers(records) ==
  UNION { { [records EXCEPT ![i].seq = i + 1],
            [records EXCEPT ![i].record_id = <<"rec", 0>>],
            [records EXCEPT ![i].prev_hash = <<"sha256", <<"raw">>>>],
            [records EXCEPT ![i].ct.key = <<"vk", 0>>],
            [records EXCEPT ![i].ct.pt = <<"raw">>] } : i \in DOMAIN records }

\* the store after import_keyvault of a snapshot carrying the ledger
StoreWithLedger(self, sid, records) ==
  import_keyvault(self, now, sid,
                  encode_keyvault_snapshot_v1(
                    [header |-> [load_header(self).val EXCEPT !.records = records],
                     records |-> records])).self

UnlockMaterializesNothing(self, p) ==
  /\ ~unlock_passphrase(self, now, p).res.ok
  /\ unlock_passphrase(self, now, p).self.state = self.state
  /\ unlock_passphrase(self, now, p).self.storage = self.storage
  /\ ~unlock_passphrase(lock_all(self), now, p).res.ok
  /\ unlock_passphrase(lock_all(self), now, p).self.state = None

C24_FailedReplayMaterializesNothing ==
  \A sid \in SessionIds, p \in Passphrases :
    (LiveSession(svc, sid) /\ step_up(svc, now, sid, p).res.ok) =>
      \A records \in BrokenLedgers(StoredLedger(svc).val) :
        UnlockMaterializesNothing(StoreWithLedger(step_up(svc, now, sid, p).self, sid, records), p)

C24_Witness ==
  \E sid \in SessionIds, p \in Passphrases :
    /\ LiveSession(svc, sid)
    /\ step_up(svc, now, sid, p).res.ok
    /\ C1_StoredChainValid
    /\ Len(StoredLedger(svc).val) >= 3
    /\ \E records \in BrokenLedgers(StoredLedger(svc).val) :
         /\ records[1] = StoredLedger(svc).val[1]
         /\ records[2] = StoredLedger(svc).val[2]
         /\ UnlockMaterializesNothing(
              StoreWithLedger(step_up(svc, now, sid, p).self, sid, records), p)

(***************************************************************************)
(* SpecShim: the write-buffering shim of either binding over every backing *)
(* store content.  A core operation that fails or only reads makes no put  *)
(* (key_service.rs), so only the successful write-producing operations     *)
(* appear, each with the keys it puts, in the order of its puts.           *)
(***************************************************************************)
MaxShimWrites == 4

InitialStores == { [k \in keys |-> 0] : keys \in SUBSET StorageKeys }

ShimInit ==
  /\ \E storage \in InitialStores :
       \/ shim = ShimStart(AsyncKeyServiceNew(storage))
       \/ shim = ShimStart(KeyServiceWasmNew(storage))
  /\ LedgerInitIdle
  /\ SessionInitIdle
  /\ ServiceInitIdle
  /\ CodecInitIdle

\* persist_record_container: the record, the header listing it, the index
PersistKeys(record_id) == <<RecordKey(record_id), HeaderKey, RecordIndexKey>>

\* import_keyvault: the header, every record of the snapshot, the index
ImportKeys(record_ids) ==
  <<HeaderKey>> \o [i \in 1..Len(record_ids) |-> RecordKey(record_ids[i])] \o <<RecordIndexKey>>

ImportedRecordIds ==
  {<<>>} \cup { <<a>> : a \in ShimRecordIds } \cup { <<a, b>> : a \in ShimRecordIds, b \in ShimRecordIds }

\* one public operation whose core call succeeded with puts to these keys:
\* the AsyncKeyService wrapper flushes before it returns, the wasm binding
\* leaves the writes pending for drainStorageWrites
Operation(op, keys, put_fails) ==
  /\ shim.writes + Len(keys) <= MaxShimWrites
  /\ put_fails \in 0..Len(keys)
  /\ shim.service.binding = "wasm" => put_fails = 0
  /\ LET entries == [i \in 1..Len(keys) |-> StorageEntry(keys[i], shim.writes + i)]
         after == [shim.service EXCEPT !.state = core_puts(shim.service.binding, @, entries)]
         flushed == flush_pending(after, put_fails)
     IN shim' =
          IF shim.service.binding = "async"
          THEN [service |-> flushed.self, since |-> <<>>,
                drained |-> shim.since \o entries, issued |-> flushed.issued,
                op |-> op, res |-> flushed.res,
                written |-> shim.written \cup { keys[i] : i \in 1..Len(keys) },
                put_failed |-> shim.put_failed \/ ~flushed.res.ok,
                writes |-> shim.writes + Len(keys)]
          ELSE [shim EXCEPT !.service = after, !.since = @ \o entries,
                            !.op = op, !.res = Ok(Unit),
                            !.written = @ \cup { keys[i] : i \in 1..Len(keys) },
                            !.writes = @ + Len(keys)]
  /\ ShimIdle

ShimCreateVault(put_fails) ==
  Operation("create_vault", <<HeaderKey, RecordIndexKey>>, put_fails)

ShimChangePassphrase(put_fails) ==
  Operation("change_passphrase", <<HeaderKey>>, put_fails)

ShimEnableUserPresenceUnlock(put_fails) ==
  Operation("enable_user_presence_unlock", <<WebauthnPrfKey>>, put_fails)

ShimDisableUserPresenceUnlock(put_fails) ==
  Operation("disable_user_presence_unlock", <<WebauthnPrfKey>>, put_fails)

ShimIngestKeyEnvelope(record_id, put_fails) ==
  Operation("ingest_key_envelope", PersistKeys(record_id), put_fails)

ShimOpenResource(record_id, put_fails) ==
  Operation("open_resource", PersistKeys(record_id), put_fails)

ShimImportKeyvault(record_ids, put_fails) ==
  Operation("import_keyvault", ImportKeys(record_ids), put_fails)

\* drainStorageWrites of the wasm binding
ShimDrainStorageWrites(order) ==
  /\ shim.service.binding = "wasm"
  /\ shim.since # <<>>
  /\ LET d == WasmStorage_drain_pending(shim.service.state, order) IN
     shim' = [shim EXCEPT !.service.state = d.state, !.since = <<>>,
                          !.drained = shim.since, !.issued = d.entries,
                          !.op = "drainStorageWrites"]
  /\ ShimIdle

ShimNext ==
  \/ \E f \in 0..MaxShimWrites : ShimCreateVault(f)
  \/ \E f \in 0..MaxShimWrites : ShimChangePassphrase(f)
  \/ \E f \in 0..MaxShimWrites : ShimEnableUserPresenceUnlock(f)
  \/ \E f \in 0..MaxShimWrites : ShimDisableUserPresenceUnlock(f)
  \/ \E id \in ShimRecordIds, f \in 0..MaxShimWrites : ShimIngestKeyEnvelope(id, f)
  \/ \E id \in ShimRecordIds, f \in 0..MaxShimWrites : ShimOpenResource(id, f)
  \/ \E ids \in ImportedRecordIds, f \in 0..MaxShimWrites : ShimImportKeyvault(ids, f)
  \/ \E order \in IterationOrders(shim.service.state.pending) : ShimDrainStorageWrites(order)

SpecShim == ShimInit /\ [][ShimNext]_vars

(***************************************************************************)
(* C25..C27: the write-buffering shim (SpecShim)                           *)
(***************************************************************************)
IsPrefixOf(a, b) == Len(a) <= Len(b) /\ a = SubSeq(b, 1, Len(a))

\* the last write to each key among these puts
LatestPerKey(entries) ==
  { entries[i] : i \in { j \in DOMAIN entries :
                           \A l \in DOMAIN entries : l > j => entries[l].key # entries[j].key } }

\* C25: the puts performed by a flush of AsyncKeyService, and the entries
\* returned by drainStorageWrites of the wasm binding, are the puts the core
\* made to the mirror since the previous drain, in insertion order (a flush
\* stopped by a failing put has performed the puts before it)
C25_WritesIssuedInOrder ==
  /\ shim.service.binding = "async" =>
       /\ IsPrefixOf(shim.issued, shim.drained)
       /\ shim.res.ok => shim.issued = shim.drained
  /\ shim.service.binding = "wasm" => shim.issued = shim.drained

\* C25, the AsyncKeyService half alone: flush_pending issues the drained Vec in
\* insertion order
C25_FlushIssuesInOrder ==
  shim.service.binding = "async" =>
    /\ IsPrefixOf(shim.issued, shim.drained)
    /\ shim.res.ok => shim.issued = shim.drained

\* C25, what drainStorageWrites does return: the last write to each key written
\* since the previous drain, each key once, in no particular order
C25_DrainReturnsLatestPerKey ==
  shim.service.binding = "wasm" =>
    /\ Range(shim.issued) = LatestPerKey(shim.drained)
    /\ Len(shim.issued) = Cardinality(LatestPerKey(shim.drained))

\* a drain of the wasm binding took several writes of the core
C25_DrainedSeveral ==
  ~(shim.op = "drainStorageWrites" /\ Len(shim.drained) >= 2)

\* an AsyncKeyService operation that made puts has returned Ok
FlushedOk == shim.service.binding = "async" /\ shim.op # "new" /\ shim.res.ok

\* the backing store holds the mirror's current value of these keys
BackingCurrent(keys) ==
  \A k \in keys :
    /\ MapHas(shim.service.storage, k)
    /\ MapHas(shim.service.state.values, k)
    /\ shim.service.storage[k] = shim.service.state.values[k]

KeysOf(entries) == { entries[i].key : i \in DOMAIN entries }

\* C26: after a write-producing AsyncKeyService operation returned Ok the
\* pending list is empty and the backing store holds the mirror's current value
\* of every key written through the mirror, the later value where a key was
\* written more than once before the flush
C26_OkLeavesBackingCurrent ==
  FlushedOk =>
    /\ shim.service.state.pending = <<>>
    /\ BackingCurrent(shim.written)
    /\ \A e \in LatestPerKey(shim.drained) : shim.service.storage[e.key] = e.value

\* C26, for the keys the returning operation itself wrote
C26_OkStoresOwnWrites ==
  FlushedOk =>
    /\ shim.service.state.pending = <<>>
    /\ BackingCurrent(KeysOf(shim.drained))
    /\ \A e \in LatestPerKey(shim.drained) : shim.service.storage[e.key] = e.value

\* C26, as long as no put to the backing store has failed
C26_NoFailedPutBackingCurrent ==
  (FlushedOk /\ ~shim.put_failed) =>
    /\ shim.service.state.pending = <<>>
    /\ BackingCurrent(shim.written)

\* an operation returned Ok after writing one key twice before its flush
C26_WroteTwiceBeforeFlush ==
  ~(FlushedOk /\ Cardinality(KeysOf(shim.drained)) < Len(shim.drained))

\* C27: AsyncKeyService::new terminates and leaves the mirror equal to the
\* backing store, each entry loaded once, for every backing-store content,
\* also one of more entries than the page limit, given a list_since that
\* returns the entries strictly after the cursor in key order and the last
\* returned key as next cursor
C27_PreloadMirrorsBackingStore ==
  LET storage == shim.service.storage
      loaded == load_namespace_entries(storage)
  IN /\ loaded.done
     /\ Len(loaded.entries) = Cardinality(DOMAIN storage)
     /\ KeysOf(loaded.entries) = DOMAIN storage
     /\ AsyncKeyServiceNew(storage).state.values = storage
     /\ AsyncKeyServiceNew(storage).state.pending = <<>>
     /\ (shim.op = "new" /\ shim.service.binding = "async") =>
          shim.service.state.values = storage

\* a service was constructed over a backing store of more entries than a page
C27_Witness ==
  /\ shim.op = "new"
  /\ shim.service.binding = "async"
  /\ Cardinality(DOMAIN shim.service.storage) > DEFAULT_LIST_LIMIT
  /\ load_namespace_entries(shim.service.storage).calls > 2

(***************************************************************************)
(* C28: unlock by user presence (Spec)                                     *)
(***************************************************************************)
\* user-presence unlock is enabled: a wrap is stored under webauthn_prf
PrfEnabled(self) == load_webauthn_prf_unlock(self).ok

PrfUnlocks(self, prf_output) == unlock_webauthn_prf(self, now, prf_output).res.ok

\* a successful change_passphrase keeps a working user-presence unlock working
PrfUnlockSurvivesChange(self) ==
  \A sid \in SessionIds, p \in Passphrases :
    LET c == change_passphrase(self, now, sid, p) IN
    (PrfUnlocks(self, SamplePrf) /\ c.res.ok) => PrfUnlocks(c.self, SamplePrf)

\* C28: once enable_user_presence_unlock succeeded with a secret, unlock with
\* that secret succeeds in every later state until disable_user_presence_unlock,
\* in particular after a change_passphrase; after disable, unlock by user
\* presence fails
C28_PrfUnlocksUntilDisabled ==
  /\ PrfEnabled(svc) => PrfUnlocks(svc, SamplePrf)
  /\ PrfUnlockSurvivesChange(svc)
  /\ ~PrfEnabled(svc) => \A prf \in SamplePrfOutputs : ~PrfUnlocks(svc, prf)

\* C28, the case of change_passphrase right after enable
C28_ChangePassphraseKeepsPrfUnlock ==
  \A sid \in SessionIds :
    LET e == enable_webauthn_prf_unlock(svc, now, sid, SampleCredential, SamplePrf) IN
    e.res.ok => PrfUnlockSurvivesChange(e.self)

\* C28, what does happen: after a successful change_passphrase the stored wrap
\* no longer opens, unlock with the enabled secret fails with CryptoError
C28_ChangePassphraseBreaksPrfUnlock ==
  \A sid \in SessionIds, p \in Passphrases :
    LET c == change_passphrase(svc, now, sid, p) IN
    (PrfEnabled(svc) /\ c.res.ok) =>
      /\ PrfEnabled(c.self)
      /\ unlock_webauthn_prf(c.self, now, SamplePrf).res.err = "CryptoError"

\* C28, what holds: right after enable the secret unlocks and another secret
\* does not, and it keeps unlocking while the header's kdf stays the one the
\* wrap was made under
C28_EnabledSecretUnlocks ==
  \A sid \in SessionIds :
    LET e == enable_webauthn_prf_unlock(svc, now, sid, SampleCredential, SamplePrf) IN
    e.res.ok =>
      /\ unlock_webauthn_prf(e.self, now, SamplePrf).res.ok
      /\ \A prf \in SamplePrfOutputs \ {SamplePrf} :
           unlock_webauthn_prf(e.self, now, prf).res.err = "CryptoError"

\* C28, what holds: with no wrap stored, or after disable, unlock by user
\* presence fails with every secret
C28_DisabledPrfUnlockFails ==
  /\ ~PrfEnabled(svc) => \A prf \in SamplePrfOutputs : ~PrfUnlocks(svc, prf)
  /\ \A sid \in SessionIds :
       LET d == disable_webauthn_prf_unlock(svc, now, sid) IN
       d.res.ok => \A prf \in SamplePrfOutputs :
                     unlock_webauthn_prf(d.self, now, prf).res.err = "InvalidFormat"

\* the passphrase was changed while user-presence unlock was enabled and working
C28_ChangedWhileEnabled ==
  \E sid \in SessionIds, p \in Passphrases :
    /\ PrfUnlocks(svc, SamplePrf)
    /\ change_passphrase(svc, now, sid, p).res.ok

(***************************************************************************)
(* C29: the error kind of a cryptographic failure (SpecKeys)               *)
(***************************************************************************)
\* the stored ledger with one container sealed under another key
LedgersSealedElsewhere(records) ==
  { [records EXCEPT ![i].ct.key = <<"vk", 0>>] : i \in DOMAIN records }

\* the error kind of unlock when a ledger record fails to open
LedgerDecryptErrors(self) ==
  { unlock_passphrase(StoreWithLedger(step_up(self, now, sid, p).self, sid, records),
                      now, p).res.err :
      sid \in { s \in SessionIds : LiveSession(self, s) },
      p \in { q \in Passphrases : \E s \in SessionIds : step_up(self, now, s, q).res.ok },
      records \in LedgersSealedElsewhere(StoredLedger(self).val) }

\* vault key unwrap: where one passphrase unlocks, the other one fails
VaultUnwrapErrors(self) ==
  { unlock_passphrase(self, now, q).res.err :
      q \in { q \in Passphrases :
                \E p \in Passphrases \ {q} : unlock_passphrase(self, now, p).res.ok } }

GoodEnvelope(self) ==
  MakeKeyEnvelope("device-owner", OwnerKey, OwnerScopeState, CurrentUserPublic(self),
                  CurrentUserPublic(self), FALSE)

\* the envelope sealed for another recipient key, and the envelope carrying a
\* signature made with another signing key
BadEnvelopes(self) ==
  { MakeKeyEnvelope("device-owner", OwnerKey, OwnerScopeState, CurrentUserPublic(self),
                    <<"ukpub", 0>>, FALSE),
    [GoodEnvelope(self) EXCEPT !.signature =
       hybrid_sign(key_envelope_to_be_signed_bytes(GoodEnvelope(self)), OutsiderKey)] }

EnvelopeErrors(self) ==
  { ingest_key_envelope(self, now, sid, encode_key_envelope_v1(bad)).res.err :
      sid \in { s \in SessionIds :
                  ingest_key_envelope(self, now, s,
                                      encode_key_envelope_v1(GoodEnvelope(self))).res.ok },
      bad \in BadEnvelopes(self) }

GoodGrant == MakeResourceGrant("device-owner", OwnerKey, OwnerScopeState, SampleScopeKey)

\* the grant wrapped under another scope key, and the grant carrying a signature
\* made with another signing key
BadGrants ==
  { MakeResourceGrant("device-owner", OwnerKey, OwnerScopeState, <<"sk", 2>>),
    [GoodGrant EXCEPT !.signature =
       hybrid_sign(resource_grant_to_be_signed_bytes(GoodGrant), OutsiderKey)] }

GrantErrors(self) ==
  UNION { { open_resource(self, now, sh[1], sh[2], encode_resource_grant_v1(bad)).res.err :
              bad \in BadGrants } :
          sh \in { x \in SessionIds \X KeyHandles :
                     open_resource(self, now, x[1], x[2],
                                   encode_resource_grant_v1(GoodGrant)).res.ok } }

\* payload decrypt under another aad than the one sealed with
PayloadErrors(self) ==
  UNION { { decrypt(self, now, sid, h, <<"aad", 2>>, ct).res.err :
              ct \in { c \in SampleCiphertexts :
                         decrypt(self, now, sid, h, SampleAad, c).res.ok } } :
          sid \in SessionIds, h \in KeyHandles }

\* a scope state signed with another key than the one it names
ScopeStateErrors(self) ==
  { ingest_scope_state(self, now, sid, encode_scope_state_v1(ForgedScopeState), None).res.err :
      sid \in { s \in SessionIds : LiveSession(self, s) } }

\* C29: every failure of an AEAD open or of a signature verification inside a
\* public operation (vault key unwrap, ledger record decrypt during unlock,
\* scope key unwrap, resource key unwrap, payload decrypt, scope-state, envelope
\* and grant signature) reaches the caller as CryptoError and no other kind
C29_CryptoFailuresAreCryptoError ==
  VaultUnwrapErrors(svc) \cup LedgerDecryptErrors(svc) \cup EnvelopeErrors(svc)
    \cup GrantErrors(svc) \cup PayloadErrors(svc) \cup ScopeStateErrors(svc)
    \subseteq {"CryptoError"}

\* C29, what holds: every cryptographic failure outside the replay of the
\* ledger reaches the caller as CryptoError
C29_OutsideReplayCryptoError ==
  VaultUnwrapErrors(svc) \cup EnvelopeErrors(svc) \cup GrantErrors(svc)
    \cup PayloadErrors(svc) \cup ScopeStateErrors(svc) \subseteq {"CryptoError"}

\* C29, what does happen: a ledger record that fails to open during unlock
\* reaches the caller as InvalidFormat
C29_LedgerDecryptIsInvalidFormat ==
  LedgerDecryptErrors(svc) \subseteq {"InvalidFormat"}

\* each of the failures has occurred in some state
C29_EachFailureSeen ==
  ~(/\ VaultUnwrapErrors(svc) # {}
    /\ LedgerDecryptErrors(svc) # {}
    /\ PayloadErrors(svc) # {}
    /\ ScopeStateErrors(svc) # {})
C29_EnvelopeFailureSeen == EnvelopeErrors(svc) = {}
C29_GrantFailureSeen == GrantErrors(svc) = {}

(***************************************************************************)
(* C30: encrypt and decrypt through a resource-key handle (SpecKeys)       *)
(***************************************************************************)
SampleAads == { SampleAad, <<"aad", 2>> }
SamplePlaintexts == { SampleData, <<"data", 2>>, EmptyBytes }
EncryptNonce == <<"enc-nonce", 1>>

\* a grant of another resource, carrying another resource key
OtherGrantUnsigned ==
  [GoodGrant EXCEPT
     !.resource_id = "res-2", !.resource_key_id = "rk-2",
     !.wrapped_key = aead_encrypt(SampleScopeKey,
                                  aad_resource_grant_wrap_v1(SampleScope, "res-2", 1, "rk-2",
                                                             "aead-1"),
                                  <<"rk", 2>>, <<"grant-nonce", 1>>),
     !.signature = <<>>]
OtherGrant ==
  [OtherGrantUnsigned EXCEPT
     !.signature = hybrid_sign(resource_grant_to_be_signed_bytes(OtherGrantUnsigned), OwnerKey)]

\* the handles of the session that hold another resource key once the other
\* grant is opened, each with the service it is live in
OtherKeyHandles(self, sid) ==
  { [self |-> o.self, handle |-> o.res.val.resource_key_handle] :
      o \in { r \in { open_resource(self, now, sid, sh, encode_resource_grant_v1(OtherGrant)) :
                        sh \in KeyHandles } : r.res.ok } }

RoundTrip(self, sid, h, aad, pt) ==
  LET e == encrypt(self, now, sid, h, aad, pt, EncryptNonce) IN
  e.res.ok =>
    /\ decrypt(e.self, now, sid, h, aad, e.res.val.ciphertext).res = Ok([plaintext |-> pt])
    /\ \A other \in SampleAads \ {aad} :
         decrypt(e.self, now, sid, h, other, e.res.val.ciphertext).res = Err("CryptoError")
    /\ \A o \in OtherKeyHandles(e.self, sid) :
         decrypt(o.self, now, sid, o.handle, aad, e.res.val.ciphertext).res
           = Err("CryptoError")

\* C30: for a valid session and a live resource-key handle h of it,
\* decrypt(s, h, aad, encrypt(s, h, aad, pt)) returns pt for every aad and pt;
\* decrypt of that ciphertext under a different aad, or through a handle
\* holding a different key, fails with CryptoError
C30_DecryptInvertsEncrypt ==
  \A sid \in SessionIds, h \in KeyHandles, aad \in SampleAads, pt \in SamplePlaintexts :
    RoundTrip(svc, sid, h, aad, pt)

\* a session encrypted through a resource-key handle and has a handle holding
\* another key
C30_Witness ==
  \E sid \in SessionIds, h \in KeyHandles :
    LET e == encrypt(svc, now, sid, h, SampleAad, SampleData, EncryptNonce) IN
    /\ e.res.ok
    /\ decrypt(e.self, now, sid, h, SampleAad, e.res.val.ciphertext).res.ok
    /\ OtherKeyHandles(e.self, sid) # {}

(***************************************************************************)
(* SpecCodec: the canonical codec of cbor.rs applied to values and to byte *)
(* strings.                                                                *)
(***************************************************************************)
\* unsigned integers on both sides of each change of header width
SampleUints == {0, 1, 23, 24, 255, 256}
SampleLeaves ==
  { ValueInteger(n) : n \in SampleUints }
    \cup { ValueBytes(<<>>), ValueBytes(<<0>>), ValueText(<<97>>) }
SampleKeys == { ValueInteger(n) : n \in {0, 1, 24, 256} }
SampleFields == { ValueInteger(0), ValueInteger(24), ValueBytes(<<0>>), ValueText(<<97>>) }

SeqsUpTo(S, n) == UNION { [1..k -> S] : k \in 0..n }

\* cbor_map over any list of entries, and cbor_array
FlatMaps == { ValueMap(pairs) : pairs \in SeqsUpTo(SampleKeys \X SampleFields, 2) }
FlatArrays == { ValueArray(items) : items \in SeqsUpTo(SampleLeaves, 2) }
InnerValues ==
  { ValueMap(<<<<ValueInteger(0), ValueInteger(0)>>, <<ValueInteger(1), ValueInteger(1)>>>>),
    ValueMap(<<<<ValueInteger(1), ValueInteger(1)>>, <<ValueInteger(0), ValueInteger(0)>>>>),
    ValueMap(<<<<ValueInteger(1), ValueInteger(0)>>, <<ValueInteger(1), ValueInteger(1)>>>>),
    ValueArray(<<ValueInteger(1), ValueInteger(0)>>) }
NestedValues ==
  { ValueMap(<<<<k, inner>>>>) : k \in SampleKeys, inner \in InnerValues }
    \cup { ValueArray(<<inner, leaf>>) : inner \in InnerValues, leaf \in SampleFields }
    \cup { ValueMap(<<<<ValueInteger(1), leaf>>, <<ValueInteger(0), inner>>>>) :
             inner \in InnerValues, leaf \in SampleFields }

\* a value nested to the given number of arrays around a leaf
RECURSIVE Nest(_)
Nest(levels) == IF levels = 0 THEN ValueInteger(0) ELSE ValueArray(<<Nest(levels - 1)>>)

\* values past one of the limits
OverLimitValues ==
  { ValueArray([i \in 1..(max_items + 1) |-> ValueInteger(0)]),
    ValueMap([i \in 1..(max_items + 1) |-> <<ValueInteger(i), ValueInteger(0)>>]),
    Nest(max_depth + 1),
    ValueBytes([i \in 1..max_bytes |-> 0]) }

CodecValues == SampleLeaves \cup FlatMaps \cup FlatArrays \cup NestedValues \cup OverLimitValues

\* byte strings: the items as a writer emits them entry by entry, the same
\* followed by further bytes, cut short, and integers in a longer header
TrailingBytes == { <<0>>, <<246>>, <<160>> }
WrittenInputs == { into_writer(v) : v \in CodecValues }
CodecInputs ==
  WrittenInputs
    \cup { b \o t : b \in WrittenInputs, t \in TrailingBytes }
    \cup { SubSeq(b, 1, Len(b) - 1) : b \in WrittenInputs }
    \cup { <<24, 5>>, <<25, 0, 5>>, <<25, 0, 255>>, <<88, 1, 0>>, <<152, 1, 0>>, <<184, 1, 0, 0>> }

CodecInit ==
  /\ \/ \E v \in CodecValues : codec = CodecStart("value", v)
     \/ \E b \in CodecInputs : codec = CodecStart("bytes", b)
  /\ LedgerInitIdle
  /\ SessionInitIdle
  /\ ServiceInitIdle
  /\ ShimInitIdle

\* encode_canonical_value(&v)
CodecEncode ==
  /\ codec.kind = "value" /\ codec.op = "new"
  /\ codec' = [codec EXCEPT !.op = "encode",
                            !.out = encode_canonical_value_bytes(codec.input)]
  /\ CodecIdle

\* decode_canonical_value(b, &CborLimits::default())
CodecDecode ==
  /\ codec.kind = "bytes" /\ codec.op = "new"
  /\ codec' = [codec EXCEPT !.op = "decode",
                            !.out = decode_canonical_value_bytes(codec.input)]
  /\ CodecIdle

\* decode_canonical_value(&encode_canonical_value(&v)?, ..)
CodecDecodeEncoded ==
  /\ codec.op = "encode"
  /\ codec' = [codec EXCEPT !.op = "decode(encode)",
                            !.out = decode_canonical_value_bytes(codec.out)]
  /\ CodecIdle

\* encode_canonical_value(&decode_canonical_value(b, ..)?)
CodecEncodeDecoded ==
  /\ codec.op = "decode" /\ codec.out.ok
  /\ codec' = [codec EXCEPT !.op = "encode(decode)",
                            !.out = encode_canonical_value_bytes(codec.out.val)]
  /\ CodecIdle

CodecNext == CodecEncode \/ CodecDecode \/ CodecDecodeEncoded \/ CodecEncodeDecoded

SpecCodec == CodecInit /\ [][CodecNext]_vars

\* the value is inside CborLimits and its encoding inside max_bytes
WithinLimits(v) ==
  check_limits(canonicalize_value(v), 0).ok
    /\ Len(encode_canonical_value_bytes(v)) <= max_bytes

\* every map of the value lists its keys in strictly ascending order of their
\* encoded bytes
RECURSIVE IsCanonicalValue(_)
IsCanonicalValue(v) ==
  CASE v[1] = "map" ->
         /\ \A i \in DOMAIN v[2] : IsCanonicalValue(v[2][i][1]) /\ IsCanonicalValue(v[2][i][2])
         /\ \A i, j \in DOMAIN v[2] :
              i < j => BytesLess(into_writer(v[2][i][1]), into_writer(v[2][j][1]))
    [] v[1] = "array" -> \A i \in DOMAIN v[2] : IsCanonicalValue(v[2][i])
    [] OTHER -> TRUE

\* C31: for every value within the limits, built from maps with unsigned
\* integer keys, arrays, byte strings, text strings and unsigned integers,
\* decoding its canonical encoding gives the value back
C31_DecodeEncodeIsIdentity ==
  (codec.op = "decode(encode)" /\ WithinLimits(codec.input)) =>
    codec.out = Ok(codec.input)

\* C31, for what the code returns: the value with every map's entries in
\* ascending order of their encoded keys and one entry per key, the later
\* one; the value itself when its maps are already so
C31_DecodeEncodeIsCanonicalForm ==
  (codec.op = "decode(encode)" /\ WithinLimits(codec.input)) =>
    /\ codec.out = Ok(canonicalize_value(codec.input))
    /\ IsCanonicalValue(codec.input) => codec.out = Ok(codec.input)

\* a map with two ascending keys and a nested map went through the round trip
C31_Witness ==
  /\ codec.op = "decode(encode)"
  /\ WithinLimits(codec.input)
  /\ IsCanonicalValue(codec.input)
  /\ codec.input[1] = "map"
  /\ Len(codec.input[2]) = 1
  /\ codec.input[2][1][2][1] = "map"
  /\ Len(codec.input[2][1][2][2]) = 2
  /\ codec.out.ok

(***************************************************************************)
(* C32: what decode_canonical_value rejects (SpecCodec)                    *)
(***************************************************************************)
\* the keys of some map of the value: one listed before a smaller one
RECURSIVE KeysOutOfOrder(_)
KeysOutOfOrder(v) ==
  CASE v[1] = "map" ->
         \/ \E i \in DOMAIN v[2] : KeysOutOfOrder(v[2][i][1]) \/ KeysOutOfOrder(v[2][i][2])
         \/ \E i, j \in DOMAIN v[2] :
              i < j /\ BytesLess(into_writer(v[2][j][1]), into_writer(v[2][i][1]))
    [] v[1] = "array" -> \E i \in DOMAIN v[2] : KeysOutOfOrder(v[2][i])
    [] OTHER -> FALSE

\* the keys of some map of the value: one listed twice
RECURSIVE KeyRepeated(_)
KeyRepeated(v) ==
  CASE v[1] = "map" ->
         \/ \E i \in DOMAIN v[2] : KeyRepeated(v[2][i][1]) \/ KeyRepeated(v[2][i][2])
         \/ \E i, j \in DOMAIN v[2] : i < j /\ v[2][i][1] = v[2][j][1]
    [] v[1] = "array" -> \E i \in DOMAIN v[2] : KeyRepeated(v[2][i])
    [] OTHER -> FALSE

\* the input holds a data item followed by further bytes
TrailingInput(b) == from_reader(b).ok /\ from_reader(b).rest # <<>>

NonCanonicalInput(b) ==
  /\ from_reader(b).ok
  /\ \/ KeysOutOfOrder(from_reader(b).val)
     \/ KeyRepeated(from_reader(b).val)
     \/ TrailingInput(b)

\* the input and the item it holds are inside CborLimits
InputWithinLimits(b) ==
  Len(b) <= max_bytes /\ from_reader(b).ok /\ check_limits(from_reader(b).val, 0).ok

C32_RepeatedKeySeen ==
  /\ codec.op = "decode"
  /\ InputWithinLimits(codec.input)
  /\ KeyRepeated(from_reader(codec.input).val)
  /\ ~TrailingInput(codec.input)
  /\ codec.out.err = "non-canonical cbor"

\* a canonical input was accepted and encoded again
C32_AcceptedSeen ==
  /\ codec.op = "encode(decode)"
  /\ from_reader(codec.input).val[1] = "map"
  /\ Len(from_reader(codec.input).val[2]) = 2

(***************************************************************************)
(* C33: sessions and the state they share (SpecKeys)                       *)
(***************************************************************************)
\* what a session sees of the service: the loaded vault with its signer
\* roster, its own table of handles, and the outcome of its operations
SeenBy(self, t, sid) ==
  [state |-> self.state,
   session |-> self.sessions[sid],
   open_scope |-> open_scope(self, t, sid, SampleScope, 1).res,
   sign |-> sign(self, t, sid, SampleData, SampleDevice).res,
   ingest_key_envelope |->
     { ingest_key_envelope(self, t, sid, cbor).res : cbor \in SampleKeyEnvelopes(self) },
   persist_scope_key |-> persist_scope_key(self, t, sid, SampleScope, 1, SampleScopeKey).res]

\* what a session holds by itself: its handles and what they encrypt
HeldBy(self, t, sid) ==
  [session |-> self.sessions[sid],
   encrypt |-> [h \in KeyHandles |->
                  encrypt(self, t, sid, h, SampleAad, SampleData, EncryptNonce).res]]

\* a further unlock one tick later, and the session it creates
LaterUnlock(self) == unlock_passphrase(self, now + 1, "pass-a")

\* C33: lock of one session, the detection of its expiry, or a further
\* unlock, changes nothing of what another valid session sees: the loaded
\* vault, the signer roster, its handles, and the outcome of its open_scope,
\* sign, ingest_key_envelope and persist operations
C33_SessionsIsolated ==
  /\ \A a, b \in SessionIds :
       (a # b /\ LiveSession(svc, a) /\ LiveSession(svc, b)) =>
         SeenBy(lock(svc, a).self, now, b) = SeenBy(svc, now, b)
  /\ \A b \in SessionIds :
       (LiveSession(svc, b) /\ LaterUnlock(svc).res.ok) =>
         SeenBy(LaterUnlock(svc).self, now + 1, b) = SeenBy(svc, now + 1, b)
  /\ \A a \in SessionIds :
       (LiveSession(svc, a) /\ LaterUnlock(svc).res.ok) =>
         LET unlocked == LaterUnlock(svc)
             b == unlocked.res.val.session_id
             t == svc.sessions[a].expires_at_ms + 1
         IN t <= unlocked.res.val.expires_at_ms =>
              SeenBy(ensure_session_valid(unlocked.self, t, a).self, t, b)
                = SeenBy(unlocked.self, t, b)

\* C33, for what a session holds by itself: its entry in the session table,
\* its handles and the outcome of encrypt through them are the same after
\* lock of another session, the detection of its expiry, or a further unlock
C33_OtherSessionKeepsHandles ==
  /\ \A a, b \in SessionIds :
       (a # b /\ LiveSession(svc, a) /\ LiveSession(svc, b)) =>
         HeldBy(lock(svc, a).self, now, b) = HeldBy(svc, now, b)
  /\ \A b \in SessionIds :
       (LiveSession(svc, b) /\ LaterUnlock(svc).res.ok) =>
         HeldBy(LaterUnlock(svc).self, now + 1, b) = HeldBy(svc, now + 1, b)
  /\ \A a \in SessionIds :
       (LiveSession(svc, a) /\ LaterUnlock(svc).res.ok) =>
         LET unlocked == LaterUnlock(svc)
             b == unlocked.res.val.session_id
             t == svc.sessions[a].expires_at_ms + 1
         IN t <= unlocked.res.val.expires_at_ms =>
              HeldBy(ensure_session_valid(unlocked.self, t, a).self, t, b)
                = HeldBy(unlocked.self, t, b)

\* lock of one session unloads the vault under another that is valid
C33_LockUnloadsVault ==
  \A a, b \in SessionIds :
    (a # b /\ LiveSession(svc, a) /\ LiveSession(svc, b) /\ IsSome(svc.state)) =>
      /\ lock(svc, a).self.state = None
      /\ sign(lock(svc, a).self, now, b, SampleData, SampleDevice).res = Err("CryptoError")

\* two sessions are valid, one of them holds a handle that encrypts, and the
\* vault has a device signing key
C33_TwoSessionsSeen ==
  \E a, b \in SessionIds :
    /\ a # b /\ LiveSession(svc, a) /\ LiveSession(svc, b)
    /\ sign(svc, now, b, SampleData, SampleDevice).res.ok
    /\ \E h \in KeyHandles :
         encrypt(svc, now, b, h, SampleAad, SampleData, EncryptNonce).res.ok

(***************************************************************************)
(* C34: appends after import_keyvault (SpecKeys)                           *)
(***************************************************************************)
\* the head the service appends from, and the head of the ledger it stores
MemoryHead(self) ==
  [head_seq |-> Unwrap(self.state).keyvault_state.head_seq,
   head_hash |-> Unwrap(self.state).keyvault_state.head_hash]

StoredHead(self) ==
  LET records == load_all_record_containers(self).val IN
  [head_seq |-> Len(records),
   head_hash |-> IF records = <<>> THEN ZeroHash
                 ELSE sha256(encode_keyvault_record_container_v1(records[Len(records)]))]

\* import of the blob in a step-up session, then an append in that session:
\* the head agrees with the imported ledger and the stored ledger unlocks
AppendsAfterImport(self, sid, blob, p) ==
  LET imported == import_keyvault(self, now, sid, blob)
      appended == persist_scope_key(imported.self, now, sid, SampleScope, 1, SampleScopeKey)
  IN (imported.res.ok /\ IsSome(imported.self.state)) =>
       /\ MemoryHead(imported.self) = StoredHead(imported.self)
       /\ appended.res.ok
       /\ unlock_passphrase(appended.self, now, p).res.ok

\* the service steps up, exports, appends a scope key and imports the export
OwnEarlierExport(self, sid, p) ==
  LET stepped == step_up(self, now, sid, p).self
      exported == export_keyvault(stepped, now, sid)
      appended == persist_scope_key(stepped, now, sid, SampleScope, 2, SampleScopeKey)
  IN (exported.res.ok /\ appended.res.ok) =>
       AppendsAfterImport(appended.self, sid, exported.res.val, p)

\* a second service imports the export of this one
ExportToOther(self, sid, p) ==
  LET stepped == step_up(self, now, sid, p).self
      exported == export_keyvault(stepped, now, sid)
  IN exported.res.ok =>
       AppendsAfterImport(FreshService(self.config), FreshSession, exported.res.val, p)

\* the service imports its own export made at this moment
OwnCurrentExport(self, sid, p) ==
  LET stepped == step_up(self, now, sid, p).self
      exported == export_keyvault(stepped, now, sid)
  IN exported.res.ok => AppendsAfterImport(stepped, sid, exported.res.val, p)

\* C34: after import_keyvault succeeds the in-memory head used for the next
\* append agrees with the imported ledger, and an append made in the same
\* session leaves a persisted ledger that replays and unlocks
C34_HeadAgreesAfterImport ==
  \A sid \in SessionIds, p \in Passphrases :
    (LiveSession(svc, sid) /\ step_up(svc, now, sid, p).res.ok) =>
      /\ OwnEarlierExport(svc, sid, p)
      /\ ExportToOther(svc, sid, p)

\* C34, for the import of the service's own ledger as it is: where the
\* stored records are one valid chain listed by the index and the head in
\* memory is its head, the head agrees after the import and the append
\* after the import unlocks
C34_OwnCurrentExportKeepsHead ==
  \A sid \in SessionIds, p \in Passphrases :
    (/\ LiveSession(svc, sid)
     /\ step_up(svc, now, sid, p).res.ok
     /\ IsSome(svc.state)
     /\ MemoryHead(svc) = StoredHead(svc)
     /\ svc.storage[RecordIndexKey] # EmptyBytes
     /\ C1_StoredChainValid) =>
      OwnCurrentExport(svc, sid, p)

\* import_keyvault leaves the in-memory state as it was
C34_ImportKeepsMemoryState ==
  \A sid \in SessionIds, p \in Passphrases :
    (LiveSession(svc, sid) /\ step_up(svc, now, sid, p).res.ok) =>
      LET stepped == step_up(svc, now, sid, p).self
          exported == export_keyvault(stepped, now, sid)
          appended == persist_scope_key(stepped, now, sid, SampleScope, 2, SampleScopeKey)
          imported == import_keyvault(appended.self, now, sid, exported.res.val)
      IN (exported.res.ok /\ appended.res.ok /\ imported.res.ok) =>
           /\ imported.self.state = appended.self.state
           /\ MemoryHead(stepped) = StoredHead(stepped) =>
                MemoryHead(imported.self).head_seq = StoredHead(imported.self).head_seq + 1

\* an import of an earlier export succeeded on a ledger that had grown since
C34_ImportedEarlierExport ==
  \E sid \in SessionIds :
    /\ LiveSession(svc, sid)
    /\ step_up(svc, now, sid, "pass-a").res.ok
    /\ IsSome(svc.state)
    /\ LET stepped == step_up(svc, now, sid, "pass-a").self
           exported == export_keyvault(stepped, now, sid)
           appended == persist_scope_key(stepped, now, sid, SampleScope, 2, SampleScopeKey)
       IN /\ exported.res.ok /\ appended.res.ok
          /\ import_keyvault(appended.self, now, sid, exported.res.val).res.ok
          /\ StoredHead(stepped).head_seq > 0
          /\ MemoryHead(stepped) = StoredHead(stepped)

(***************************************************************************)
(* C35: a storage failure inside an append (SpecKeys)                      *)
(***************************************************************************)
\* persist_record_container over a storage whose put number completed + 1
\* fails: the puts before it are made, the header in memory follows the
\* header put, and the error is StorageError
persist_record_container_put_fails(self, container, completed) ==
  LET stored == storage_put(self, RecordKey(container.record_id),
                            encode_keyvault_record_container_v1(container))
      header == load_header(stored)
      listed == \E i \in DOMAIN header.val.records :
                   header.val.records[i].record_id = container.record_id
      headed == IF listed THEN stored
                ELSE persist_record_container_header(
                       stored, [header.val EXCEPT !.records = Append(@, container)])
      puts == IF listed THEN 2 ELSE 3
  IN
  IF completed >= puts \/ ~header.ok THEN persist_record_container(self, container)
  ELSE IF completed = 0 THEN Ret(self, Err("StorageError"))
  ELSE IF completed = 1 THEN Ret(stored, Err("StorageError"))
  ELSE Ret(headed, Err("StorageError"))

\* persist_scope_key over that storage
persist_scope_key_put_fails(self, now_ms, session_id, scope_id, scope_epoch, scope_key, completed) ==
  LET header == load_header(self)
      valid == ensure_session_valid(self, now_ms, session_id)
      st == Unwrap(self.state)
      n == self.entropy.rec + 1
      record == make_store_scope_key_record(<<"rec", n>>, scope_id, scope_epoch, scope_key)
      appended == append_record(st.keyvault_state, header.val,
                                self.sessions[session_id].vault_key, record,
                                st.keyvault_state.head_seq + 1, <<"rec-nonce", n>>)
      mutated == [self EXCEPT
                    !.entropy.rec = n,
                    !.state = Some([st EXCEPT !.keyvault_state = appended.val.state])]
  IN
  IF ~header.ok THEN Ret(self, header)
  ELSE IF ~valid.res.ok THEN valid
  ELSE IF ~IsSome(self.state) THEN Ret(self, Err("CryptoError"))
  ELSE IF ~appended.ok THEN Ret(self, Err("InvalidFormat"))
  ELSE persist_scope_key_persisted(
         persist_record_container_put_fails(mutated, appended.val.container, completed),
         scope_id, scope_epoch, scope_key)

\* the puts an append makes, in this order, and their number
AppendPutKeys == <<"record", "header", "record_index">>
AppendPuts == Len(AppendPutKeys)

\* the number of records the stored index lists
IndexedCount(self) == Len(load_record_index(self).val)

\* an append in this session succeeds and the head in memory is the stored one
CanAppend(self, sid) ==
  /\ LiveSession(self, sid)
  /\ IsSome(self.state)
  /\ MemoryHead(self) = StoredHead(self)
  /\ persist_scope_key(self, now, sid, SampleScope, 1, SampleScopeKey).res.ok

\* C35: when a storage put fails inside an append the operation returns
\* StorageError and leaves the in-memory head and the materialized maps as
\* they were, so that head_seq is the number of records the stored index
\* lists and the next append continues the stored chain
C35_FailedAppendKeepsHead ==
  \A sid \in SessionIds, completed \in 0..(AppendPuts - 1) :
    CanAppend(svc, sid) =>
      LET failed == persist_scope_key_put_fails(svc, now, sid, SampleScope, 1,
                                                SampleScopeKey, completed)
          again == persist_scope_key(failed.self, now, sid, SampleScope, 1, SampleScopeKey)
      IN /\ failed.res = Err("StorageError")
         /\ MemoryHead(failed.self) = MemoryHead(svc)
         /\ Unwrap(failed.self.state).keyvault_materialized
              = Unwrap(svc.state).keyvault_materialized
         /\ MemoryHead(failed.self).head_seq = IndexedCount(failed.self)
         /\ again.res.ok
         /\ unlock_passphrase(again.self, now, "pass-a").res.ok

\* C35, for what the code does: the failed append returns StorageError and
\* leaves the materialized maps as they were, but the head in memory has
\* moved to the record that was not stored: head_seq is one more than the
\* number of listed records, and after the next append the stored ledger no
\* longer unlocks
C35_FailedAppendMovesHead ==
  \A sid \in SessionIds, completed \in 0..(AppendPuts - 1) :
    CanAppend(svc, sid) =>
      LET failed == persist_scope_key_put_fails(svc, now, sid, SampleScope, 1,
                                                SampleScopeKey, completed)
          again == persist_scope_key(failed.self, now, sid, SampleScope, 1, SampleScopeKey)
      IN /\ failed.res = Err("StorageError")
         /\ Unwrap(failed.self.state).keyvault_materialized
              = Unwrap(svc.state).keyvault_materialized
         /\ MemoryHead(failed.self).head_seq = MemoryHead(svc).head_seq + 1
         /\ IndexedCount(failed.self) = MemoryHead(svc).head_seq
         /\ again.res.ok
         /\ unlock_passphrase(again.self, now, "pass-a").res = Err("InvalidFormat")

\* with every put succeeding it is persist_scope_key
C35_NoFailureIsPersistScopeKey ==
  \A sid \in SessionIds :
    persist_scope_key_put_fails(svc, now, sid, SampleScope, 1, SampleScopeKey, AppendPuts)
      = persist_scope_key(svc, now, sid, SampleScope, 1, SampleScopeKey)

\* an append can run on a ledger that already has records
C35_AppendOnGrownLedger ==
  \E sid \in SessionIds : CanAppend(svc, sid) /\ MemoryHead(svc).head_seq > 0

(***************************************************************************)
(* C36: the session table after a failed unlock (SpecKeys)                 *)
(***************************************************************************)
\* either unlock, by passphrase or by user presence
Unlocks(self) ==
  { unlock_passphrase(self, now, p) : p \in Passphrases }
    \cup { unlock_webauthn_prf(self, now, prf) : prf \in SamplePrfOutputs }

\* every unlock of this store that fails leaves the session table as it was
FailedUnlockKeepsSessions(self) ==
  \A unlocked \in Unlocks(self) :
    ~unlocked.res.ok => unlocked.self.sessions = self.sessions

\* the store without its header
WithoutHeader(self) == [self EXCEPT !.storage = MapRemove(@, HeaderKey)]

\* the stores of a stepped-up session: as they are, with user-presence
\* unlock enabled, and each of the two with a ledger that fails replay
ReplayFailingStores(self, sid) ==
  LET enabled == enable_webauthn_prf_unlock(self, now, sid, SampleCredential, SamplePrf).self IN
  { StoreWithLedger(s, sid, records) :
      s \in {self, enabled}, records \in BrokenLedgers(StoredLedger(self).val) }

\* C36: an unlock by passphrase or by user presence that returns an error
\* (wrong secret, missing header, or a ledger that fails replay after the
\* vault key was unwrapped) leaves the session table as it was before the
\* call, with no further copy of the vault key in it
C36_FailedUnlockLeavesNoSession ==
  /\ FailedUnlockKeepsSessions(svc)
  /\ FailedUnlockKeepsSessions(WithoutHeader(svc))
  /\ \A sid \in SessionIds, p \in Passphrases :
       (LiveSession(svc, sid) /\ step_up(svc, now, sid, p).res.ok) =>
         \A broken \in ReplayFailingStores(step_up(svc, now, sid, p).self, sid) :
           FailedUnlockKeepsSessions(broken)

\* C36, for an unlock that fails before the vault key is unwrapped: with a
\* wrong secret, a missing header, or user presence that was never enabled,
\* the whole service is as it was before the call
C36_EarlyFailureLeavesNoSession ==
  /\ \A unlocked \in Unlocks(WithoutHeader(svc)) :
       ~unlocked.res.ok /\ unlocked.self = WithoutHeader(svc)
  /\ \A unlocked \in Unlocks(svc) :
       unlocked.res.err = "CryptoError" => unlocked.self = svc
  /\ unlock_passphrase(svc, now, "pass-b").res.err \in {"CryptoError", "InvalidFormat"}

\* C36, for a ledger that fails replay: the unlock with the right secret
\* returns InvalidFormat and the session table holds one session more, a
\* session that carries the unwrapped vault key and is accepted as valid
C36_FailedReplayLeavesSession ==
  \A sid \in SessionIds, p \in Passphrases :
    (LiveSession(svc, sid) /\ step_up(svc, now, sid, p).res.ok) =>
      \A broken \in ReplayFailingStores(step_up(svc, now, sid, p).self, sid) :
        LET unlocked == unlock_passphrase(broken, now, p)
            left == DOMAIN unlocked.self.sessions \ DOMAIN broken.sessions
        IN /\ unlocked.res = Err("InvalidFormat")
           /\ Cardinality(left) = 1
           /\ \A s \in left :
                /\ unlocked.self.sessions[s].vault_key = broken.sessions[sid].vault_key
                /\ ensure_session_valid(unlocked.self, now, s).res.ok

\* a ledger of records that fails replay was stored under a stepped-up session
C36_FailedReplaySeen ==
  \E sid \in SessionIds :
    /\ LiveSession(svc, sid)
    /\ step_up(svc, now, sid, "pass-a").res.ok
    /\ ReplayFailingStores(step_up(svc, now, sid, "pass-a").self, sid) # {}

(***************************************************************************)
(* C37: the pending list after a failed flush (SpecShim)                   *)
(***************************************************************************)
\* the keys whose value in the mirror has not reached the backing store
MirrorAhead(service) ==
  { k \in DOMAIN service.state.values :
      ~MapHas(service.storage, k) \/ service.storage[k] # service.state.values[k] }

PendingKeys(service) == KeysOf(service.state.pending)

\* the flush of the last AsyncKeyService operation failed
FlushFailed == shim.service.binding = "async" /\ shim.op # "new" /\ ~shim.res.ok

\* C37: when a put to the backing store fails during flush_pending, every
\* write that has not reached the backing store is still in the pending
\* list, and the flush of a later operation that succeeds brings the backing
\* store in line with the mirror
C37_FailedFlushKeepsPending ==
  /\ FlushFailed => MirrorAhead(shim.service) \subseteq PendingKeys(shim.service)
  /\ FlushedOk => MirrorAhead(shim.service) = {}

\* C37, for what the code does: after a failed flush the pending list is
\* empty, the put that failed and the drained writes behind it are in the
\* mirror only, and they stay so until their keys are written again
C37_FailedFlushDropsPending ==
  /\ FlushFailed =>
       /\ shim.service.state.pending = <<>>
       /\ MirrorAhead(shim.service) # {}
       /\ KeysOf(shim.drained) \ KeysOf(shim.issued) \subseteq MirrorAhead(shim.service)
  /\ shim.service.binding = "async" =>
       /\ shim.service.state.pending = <<>>
       /\ ~shim.put_failed => MirrorAhead(shim.service) = {}

\* a flush failed after it had issued one put and before two others
C37_FailedMidway ==
  /\ FlushFailed
  /\ Len(shim.issued) >= 1
  /\ Len(shim.drained) >= Len(shim.issued) + 2

(***************************************************************************)
(* C38: restart over a store that holds a prefix of an operation's puts    *)
(* (SpecKeys)                                                              *)
(***************************************************************************)
\* the process started again over the store: no session, nothing loaded
Restart(self) == [self EXCEPT !.sessions = EmptyMap, !.state = None]

\* unlock with the passphrase of the stored header succeeds and materializes
\* the chain the index lists
UnlocksAfterRestart(self) ==
  \E p \in Passphrases :
    LET unlocked == unlock_passphrase(Restart(self), now, p) IN
    /\ unlocked.res.ok
    /\ MemoryHead(unlocked.self) = StoredHead(unlocked.self)

\* the stores left by every prefix of the puts of an append
AppendPrefixes(self, sid) ==
  { persist_scope_key_put_fails(self, now, sid, SampleScope, 1, SampleScopeKey,
                                completed).self : completed \in 0..AppendPuts }

\* the stores left by every prefix of the puts of an import
ImportPrefixes(self, sid) ==
  { import_keyvault_put_fails(self, now, sid, blob, completed).self :
      blob \in ImportBlobs(self), completed \in 0..(MaxRecords + 2) }

\* C38: when the process stops after any prefix of the puts of an append
\* (record, header, record_index) or of an import (header, records,
\* record_index) and starts again over that store, unlock_passphrase with
\* the passphrase of the stored header succeeds and materializes a valid
\* chain
C38_PrefixOfPutsUnlocks ==
  \A sid \in SessionIds, p \in Passphrases :
    (/\ LiveSession(svc, sid)
     /\ step_up(svc, now, sid, p).res.ok
     /\ UnlocksAfterRestart(svc)) =>
      /\ CanAppend(svc, sid) =>
           \A store \in AppendPrefixes(svc, sid) : UnlocksAfterRestart(store)
      /\ \A store \in ImportPrefixes(step_up(svc, now, sid, p).self, sid) :
           UnlocksAfterRestart(store)

\* C38, for an append: every prefix of its puts leaves a store that unlocks;
\* until the record_index put the index lists the chain as it was
C38_AppendPrefixUnlocks ==
  \A sid \in SessionIds :
    (UnlocksAfterRestart(svc) /\ CanAppend(svc, sid)) =>
      \A store \in AppendPrefixes(svc, sid) : UnlocksAfterRestart(store)

\* C38, for an import: once the header of another vault is put and the
\* records of this one are still listed, no passphrase unlocks the store
C38_ImportedHeaderAloneLocksOut ==
  \A sid \in SessionIds, p \in Passphrases :
    (/\ LiveSession(svc, sid)
     /\ step_up(svc, now, sid, p).res.ok
     /\ UnlocksAfterRestart(svc)
     /\ StoredLedger(svc).val # <<>>) =>
      ~UnlocksAfterRestart(
         import_keyvault_put_fails(step_up(svc, now, sid, p).self, now, sid,
                                   ForeignBlob(svc), 1).self)

\* a ledger with records unlocks, can be appended to and imported over
C38_Witness ==
  \E sid \in SessionIds :
    /\ LiveSession(svc, sid)
    /\ step_up(svc, now, sid, "pass-a").res.ok
    /\ UnlocksAfterRestart(svc)
    /\ CanAppend(svc, sid)
    /\ StoredLedger(svc).val # <<>>

(***************************************************************************)
(* C40: the order deque and the handle map of a session (SpecSession)      *)
(***************************************************************************)
\* the deque holds each key of the map exactly once and no other key
OrderListsHandlesOnce(session) ==
  /\ Range(session.handle_order) = DOMAIN session.handles
  /\ \A i, j \in DOMAIN session.handle_order :
       session.handle_order[i] = session.handle_order[j] => i = j

\* C40: after any sequence of insert_handle, get_handle, remove_handle and
\* clear, handle_order holds each key of handles exactly once and no key
\* that handles does not hold; also when insert_handle draws a handle id
\* that the session already holds
C40_OrderListsHandlesOnce ==
  /\ OrderListsHandlesOnce(sess)
  /\ \A id \in HandleIds, entry \in SampleEntries :
       OrderListsHandlesOnce(insert_handle(sess, entry, id))

\* two handles are held, an earlier one was removed or evicted, and the
\* order is no longer the order of insertion
C40_Witness ==
  /\ Len(sess.handle_order) >= 2
  /\ Len(hist.inserted) > Len(sess.handle_order)
  /\ ~hist.pure
  /\ \E i, j \in DOMAIN sess.handle_order : i < j /\ sess.handle_order[i] > sess.handle_order[j]

(***************************************************************************)
(* Handles: key_service.rs open_resource, close_handle, encrypt, decrypt   *)
(* over session.rs get_handle and remove_handle.                           *)
(***************************************************************************)
\* the kind of the entry a session holds under a handle, "none" without one
HandleKind(self, sid, h) ==
  IF MapHas(self.sessions, sid) /\ MapHas(self.sessions[sid].handles, h)
  THEN self.sessions[sid].handles[h].type
  ELSE "none"

\* the outcomes of presenting handle h in session sid at time t, per operation
EncryptWith(self, t, sid, h) ==
  { encrypt(self, t, sid, h, SampleAad, SampleData, EncryptNonce).res }

DecryptWith(self, t, sid, h) ==
  { decrypt(self, t, sid, h, SampleAad, ct).res : ct \in SampleCiphertexts }

OpenResourceWith(self, t, sid, h) ==
  { open_resource(self, t, sid, h, cbor).res : cbor \in SampleResourceGrants }

\* the operation got past the session check and the handle lookup
PastLookup(r) == r.ok \/ r.err \notin {"SessionInvalid", "UnknownHandle"}

\* every use of the handle is refused with the given error
RefusedWith(self, t, sid, h, kind) ==
  \A r \in EncryptWith(self, t, sid, h) \cup DecryptWith(self, t, sid, h)
             \cup OpenResourceWith(self, t, sid, h) : r = Err(kind)

\* a use of handle h in session sid is decided by the session and by the kind
\* of the entry the session holds under h
UseFollowsKind(self, t, sid, h) ==
  IF ~MapHas(self.sessions, sid) THEN RefusedWith(self, t, sid, h, "SessionInvalid")
  ELSE
    /\ \A r \in EncryptWith(self, t, sid, h) \cup DecryptWith(self, t, sid, h) :
         IF HandleKind(self, sid, h) = "ResourceKey" THEN PastLookup(r)
         ELSE r = Err("UnknownHandle")
    /\ \A r \in OpenResourceWith(self, t, sid, h) :
         IF HandleKind(self, sid, h) = "ScopeKey" THEN PastLookup(r)
         ELSE r = Err("UnknownHandle")
    /\ \E r \in EncryptWith(self, t, sid, h) \cup DecryptWith(self, t, sid, h) :
         HandleKind(self, sid, h) = "ResourceKey" => r.ok

\* an issued handle is held by one session at most
HeldOnce(self) ==
  \A h \in KeyHandles : \A s1, s2 \in SessionIds :
    (HandleKind(self, s1, h) # "none" /\ HandleKind(self, s2, h) # "none") => s1 = s2

\* the handles a step takes from a session are refused in the state it leaves
GoneIsRefused(before, after, sid) ==
  \A h \in KeyHandles :
    (HandleKind(before, sid, h) # "none" /\ HandleKind(after, sid, h) = "none") =>
      RefusedWith(after, now, sid, h,
                  IF MapHas(after.sessions, sid) THEN "UnknownHandle" ELSE "SessionInvalid")

\* close_handle, lock, expiry and the eviction of an inserting operation
EndedHandlesRefused(sid) ==
  /\ \A h \in KeyHandles :
       /\ HandleKind(close_handle(svc, now, sid, h).self, sid, h) = "none"
       /\ GoneIsRefused(svc, close_handle(svc, now, sid, h).self, sid)
  /\ GoneIsRefused(svc, lock(svc, sid).self, sid)
  /\ GoneIsRefused(svc, open_scope(svc, now, sid, SampleScope, 1).self, sid)
  /\ \A h \in KeyHandles, cbor \in SampleResourceGrants :
       GoneIsRefused(svc, open_resource(svc, now, sid, h, cbor).self, sid)
  /\ MapHas(svc.sessions, sid) =>
       LET late == svc.sessions[sid].expires_at_ms + 1 IN
       \A h \in KeyHandles :
         /\ RefusedWith(svc, late, sid, h, "SessionInvalid")
         /\ ~MapHas(encrypt(svc, late, sid, h, SampleAad, SampleData, EncryptNonce)
                      .self.sessions, sid)

HandleUse ==
  /\ HeldOnce(svc)
  /\ \A sid \in SessionIds :
       /\ \A h \in KeyHandles : UseFollowsKind(svc, now, sid, h)
       /\ EndedHandlesRefused(sid)

\* a handle issued earlier is held after a step only where it was held before,
\* with the kind it had
HandleStaysEnded ==
  \A sid \in SessionIds, h \in KeyHandles :
    (h <= svc.entropy.hnd /\ HandleKind(svc', sid, h) # "none") =>
      HandleKind(svc', sid, h) = HandleKind(svc, sid, h)

\* C39: encrypt and decrypt get past the handle lookup only with a resource-key
\* entry of the presented session, open_resource only with a scope-key entry;
\* a handle of another session or of the other kind, a closed or evicted one
\* yields UnknownHandle, one of a locked or expired session SessionInvalid, and
\* no step gives an issued handle back to a session that lost it
C39_HandleUsableWhereIssued == [](HandleUse) /\ [][HandleStaysEnded]_vars

\* two sessions are live, one holds a resource-key handle that encrypts, and an
\* earlier handle has been closed or evicted
C39_Witness ==
  /\ \A sid \in SessionIds : MapHas(svc.sessions, sid)
  /\ \E sid \in SessionIds, h \in KeyHandles :
       /\ HandleKind(svc, sid, h) = "ResourceKey"
       /\ \A r \in EncryptWith(svc, now, sid, h) : r.ok
       /\ \A other \in SessionIds \ {sid} : RefusedWith(svc, now, other, h, "UnknownHandle")
  /\ \E h \in KeyHandles :
       h <= svc.entropy.hnd /\ \A sid \in SessionIds : HandleKind(svc, sid, h) = "none"

============================================================================
